---- MODULE Spec2Model ----
(***************************************************************************)
(* Model of the scan-and-fingerprint engine of network-dashboard's Go      *)
(* scanner: the address expander (expandCIDR), the native probe backend    *)
(* (TCPScanner.ScanPort), the native fingerprinter, the scan orchestrator  *)
(* (runScan) and its concurrency guard (scanMutex / isScanning).           *)
(*                                                                         *)
(* The module holds several specifications over one set of variables; each *)
(* specification drives one component and keeps the others switched off.   *)
(***************************************************************************)
EXTENDS Integers, Sequences, FiniteSets, TLC

VARIABLES
    \* ---- expandCIDR (fingerprint.go:617-643) ----
    expCidr,      \* the argument: [ip |-> bytes, prefix |-> n]
    expPc,        \* "off" | "parse" | "loop" | "trim" | "returned"
    expIp,        \* the loop variable ip (a byte sequence, mutated in place by inc)
    expIps,       \* the slice ips
    expErr        \* TRUE when expandCIDR returned a parse error

expVars == <<expCidr, expPc, expIp, expIps, expErr>>

VARIABLES
    \* ---- TCPScanner.ScanPort (fingerprint.go:646-696) ----
    spNetworks,   \* t.Networks: a sequence of CIDR inputs
    spCfgRate,    \* the rate handed to NewTCPScanner
    spRate,       \* t.Rate, as NewTCPScanner set it
    spPort,       \* the port argument
    spPc,         \* "off" | "expand" | "check" | "acquire" | "wait" | "returned"
    spAllIPs,     \* the slice allIPs
    spNext,       \* index into allIPs of the target the dispatch loop is at
    spSem,        \* number of tokens in the channel sem
    spWg,         \* the WaitGroup counter
    spMu,         \* holder of the mutex mu: 0 when free, else a worker index
    spResults,    \* the shared slice results
    spWorker,     \* spWorker[i]: position of the goroutine of allIPs[i]
    spOutcome,    \* spOutcome[i]: what net.DialTimeout returned for allIPs[i]
    spCtxDone,    \* the context is cancelled or past its deadline
    spRet         \* the value ScanPort returned

spVars == <<spNetworks, spCfgRate, spRate, spPort, spPc, spAllIPs, spNext, spSem,
            spWg, spMu, spResults, spWorker, spOutcome, spCtxDone, spRet>>

VARIABLES
    \* ---- Fingerprinter.fingerprintPort (fingerprint.go:55-100) ----
    fpPort,       \* the port argument
    fpPeer,       \* how the address:port behaves when probed
    fpPc,         \* "off" | "probe" | "guess" | "default" | "returned"
    fpInfo        \* the local variable info (a ServiceInfo)

fpVars == <<fpPort, fpPeer, fpPc, fpInfo>>

VARIABLES
    \* ---- the orchestrator (main.go) ----
    scanMutex,    \* holder of scanMutex: NoProc when free
    isScanning,   \* the guard flag
    lastScanTime, \* 0 is the zero time.Time
    now,          \* what time.Now() returns next; every reading is later than the last
    mainPc,       \* "off" | "initial" (in the initial runScan) | "cron" (scheduler started)
    cronFired,    \* number of times the schedule has fired
    runs,         \* the invocations of runScan, in the order they were made
    reqs,         \* the /trigger requests, in the order they arrived
    cfg,          \* the configuration, and which version of main runs
    listening     \* the endpoints <<ip, port>> that accept connections

guardVars == <<scanMutex, isScanning, lastScanTime, now, mainPc, cronFired, runs, reqs,
               cfg, listening>>

VARIABLES
    \* ---- sanitizeBanner (fingerprint.go:476-497) ----
    sanIn,        \* the argument s, a sequence of runes
    sanPc,        \* "off" | "call" | "once" | "twice"
    sanOut,       \* what sanitizeBanner returned for sanIn
    sanAgain      \* what sanitizeBanner returned for sanOut

sanVars == <<sanIn, sanPc, sanOut, sanAgain>>

VARIABLES
    \* ---- ZgrabFingerprinter.fingerprintPort (zgrab.go:241-302) ----
    zgPort,       \* the port argument
    zgPeer,       \* how the address:port behaves when the native prober probes it
    zgOut,        \* what the zgrab2 process does and writes for this (ip, port)
    zgPc,         \* "off" | "run" | "fallback" | "parse" | "name" | "returned" | "panicked"
    zgInfo,       \* the ServiceInfo at hand, the returned one at "returned"
    zgCalls       \* the calls made so far, in order

zgVars == <<zgPort, zgPeer, zgOut, zgPc, zgInfo, zgCalls>>

VARIABLES
    \* ---- ZmapScanner.scanNetworkPort (zmap.go:62-164) ----
    znPort,       \* the port argument
    znProc,       \* what the zmap process does once started: rows, exit, stderr
    znPc,         \* "off" | "whitelist" | "write" | "blacklist" | "pipes" | "start" |
                  \* "read" | "wait" | "defers" | "returned"
    znFiles,      \* the temporary files of this invocation that exist
    znCreated,    \* the temporary files this invocation has created
    znDefers,     \* the deferred os.Remove calls, the last registered first
    znCtxDone,    \* the context is cancelled or past its deadline
    znKilled,     \* the cancellation found the process running and killed it
    znResults,    \* the local slice results
    znRet         \* the returned (results, err)

znVars == <<znPort, znProc, znPc, znFiles, znCreated, znDefers, znCtxDone, znKilled, znResults, znRet>>

VARIABLES
    \* ---- TCPScanner.ScanPortsWithCallback (fingerprint.go:707-737) ----
    cbPorts,      \* the ports argument
    cbCallback,   \* TRUE when the callback argument is not nil
    cbIdx,        \* index into ports of the entry the range loop is at
    cbPc,         \* "off" | "loop" | "scan" | "callback" | "returned"
    cbResults,    \* the map results, as the (IP, Port) appends made to it, in order
    cbDone,       \* what ScanPort returned for each entry gone through, in order
    cbCalls,      \* the callback invocations made so far, in order
    cbRet         \* the returned (results, err)

cbVars == <<cbPorts, cbCallback, cbIdx, cbPc, cbResults, cbDone, cbCalls, cbRet>>

VARIABLES
    \* ---- main: the readiness poll and the initial scan (main.go:76-84, 239) ----
    hcI,          \* the loop variable i
    hcAttempts,   \* number of calls of apiClient.HealthCheck made
    hcReady,      \* a call of HealthCheck has returned nil
    hcPc          \* "off" | "check" | "sleep" | "start" | "started"

hcVars == <<hcI, hcAttempts, hcReady, hcPc>>

VARIABLES
    \* ---- ZgrabFingerprinter.FingerprintHost (zgrab.go:224-239) ----
    zhSelf,       \* the fields of the ZgrabFingerprinter z
    zhPorts,      \* the ports argument
    zhIdx,        \* index into ports of the entry the range loop is at
    zhPc,         \* "off" | "loop" | "call" | "returned" | "panicked"
    zhResults,    \* the map results: the (port, info) pairs stored
    zhLog,        \* for each call of fingerprintPort made: the calls it made
    zhCtxDone     \* the context is cancelled or past its deadline

zhVars == <<zhSelf, zhPorts, zhIdx, zhPc, zhResults, zhLog, zhCtxDone>>

VARIABLES
    \* ---- ZmapScanner.ScanPorts and ScanAllPorts (zmap.go:46-59, 167-251) ----
    zpMode,       \* "ports" (ScanPorts) | "all" (ScanAllPorts)
    zpPorts,      \* the ports the loops go through
    zpP,          \* index into zpPorts of the port the loop is at
    zpN,          \* index of the network the loop is at
    zpPc,         \* "off" | "portLoop" | "netLoop" | "call" | "returned"
    zpLog,        \* the calls of scanNetworkPort that returned, in order
    zpErr         \* the error ScanPorts or ScanAllPorts returned

zpVars == <<zpMode, zpPorts, zpP, zpN, zpPc, zpLog, zpErr>>

VARIABLES
    \* ---- the /status handler (main.go:214-228) ----
    stPc,         \* "off" | "idle" | "lock" | "read"
    stObs         \* what the requests answered so far have read, in order

stVars == <<stPc, stObs>>

\* the components added after the first ones
lateVars == <<zhVars, zpVars, stVars>>

\* the components driven on their own, one specification each
unitVars == <<sanVars, zgVars, znVars, cbVars, hcVars, lateVars>>

coreVars == <<expVars, spVars, fpVars, guardVars>>

vars == <<coreVars, unitVars>>

ExpandOthers == <<spVars, fpVars, guardVars, unitVars>>
ScanPortOthers == <<expVars, fpVars, guardVars, unitVars>>
FingerprintOthers == <<expVars, spVars, guardVars, unitVars>>
GuardOthers == <<expVars, spVars, fpVars, unitVars>>
SanitizeOthers == <<coreVars, zgVars, znVars, cbVars, hcVars, lateVars>>
ZgrabOthers == <<coreVars, sanVars, znVars, cbVars, hcVars, lateVars>>
ZmapNetOthers == <<coreVars, sanVars, zgVars, cbVars, hcVars, lateVars>>
CallbackOthers == <<expVars, fpVars, guardVars, sanVars, zgVars, znVars, hcVars, lateVars>>
StartupOthers == <<expVars, spVars, fpVars, sanVars, zgVars, znVars, cbVars, lateVars>>
HostOthers == <<coreVars, sanVars, znVars, cbVars, hcVars, zpVars, stVars>>
LoopOthers == <<coreVars, sanVars, zgVars, cbVars, hcVars, zhVars, stVars>>
StatusOthers == <<expVars, spVars, fpVars, sanVars, zgVars, znVars, cbVars, hcVars, zhVars, zpVars>>

(***************************************************************************)
(* Addresses.  net.IP is a byte slice; the model keeps the byte structure  *)
(* (inc carries from byte to byte and wraps) with AddrBytes bytes of       *)
(* ByteBits bits each.                                                     *)
(***************************************************************************)
AddrBytes == 2
ByteBits == 2
MaxWrap == 2

RECURSIVE Pow2(_)
Pow2(n) == IF n <= 0 THEN 1 ELSE 2 * Pow2(n - 1)

ByteMod == Pow2(ByteBits)
AddrBits == AddrBytes * ByteBits
NumAddrs == Pow2(AddrBits)
Bytes == 0 .. (ByteMod - 1)
Addrs == [1 .. AddrBytes -> Bytes]

RECURSIVE ZeroBytes(_)
ZeroBytes(n) == IF n = 0 THEN <<>> ELSE <<0>> \o ZeroBytes(n - 1)

ZeroAddr == ZeroBytes(AddrBytes)

Min(a, b) == IF a < b THEN a ELSE b
Max(a, b) == IF a > b THEN a ELSE b

\* net.CIDRMask(prefix, bits): byte j (1-based) of the mask has its top n bits
\* set, n = prefix bits falling into that byte.
CIDRMaskByte(prefix, j) ==
    ByteMod - Pow2(ByteBits - Max(0, Min(ByteBits, prefix - (j - 1) * ByteBits)))

RECURSIVE CIDRMaskFrom(_, _)
CIDRMaskFrom(prefix, j) ==
    IF j > AddrBytes THEN <<>>
    ELSE <<CIDRMaskByte(prefix, j)>> \o CIDRMaskFrom(prefix, j + 1)

CIDRMask(prefix) == CIDRMaskFrom(prefix, 1)

\* b & m for a mask byte m whose set bits are the top bits.
ByteAnd(b, m) == b - (b % (ByteMod - m))

\* IP.Mask(mask)
RECURSIVE IPMaskFrom(_, _, _)
IPMaskFrom(ip, mask, j) ==
    IF j > AddrBytes THEN <<>>
    ELSE <<ByteAnd(ip[j], mask[j])>> \o IPMaskFrom(ip, mask, j + 1)

IPMask(ip, mask) == IPMaskFrom(ip, mask, 1)

\* net.ParseCIDR: error unless the prefix length is within the family's bits.
ParseCIDROk(cidr) == cidr.prefix \in 0 .. AddrBits

\* IPNet.Contains(ip) for the network ParseCIDR returns (masked base, mask).
IPNetContains(cidr, ip) ==
    LET m == CIDRMask(cidr.prefix)
    IN  \A j \in 1 .. AddrBytes : ByteAnd(cidr.ip[j], m[j]) = ByteAnd(ip[j], m[j])

\* inc(ip): increment the last byte; carry into the previous byte only when
\* the incremented byte wrapped to zero.
RECURSIVE incFrom(_, _)
incFrom(ip, j) ==
    IF j < 1 THEN ip
    ELSE LET b == (ip[j] + 1) % ByteMod
             ip2 == [ip EXCEPT ![j] = b]
         IN  IF b > 0 THEN ip2 ELSE incFrom(ip2, j - 1)

inc(ip) == incFrom(ip, AddrBytes)

\* ips[1 : len(ips)-1] when len(ips) > 2
dropEndsMut(ips) ==
    IF Len(ips) >= 2 THEN SubSeq(ips, 2, Len(ips) - 1) ELSE ips

dropEnds(ips) ==
    IF Len(ips) > 2 THEN SubSeq(ips, 2, Len(ips) - 1) ELSE ips

\* The CIDR strings handed to expandCIDR: every base address with every prefix
\* length, and one prefix length that net.ParseCIDR rejects.
CidrInputs == [ip : Addrs, prefix : 0 .. (AddrBits + 1)]

ExpandOff ==
    /\ expCidr = [ip |-> ZeroAddr, prefix |-> 0]
    /\ expPc = "off"
    /\ expIp = ZeroAddr
    /\ expIps = <<>>
    /\ expErr = FALSE

ExpandInit ==
    /\ expCidr \in CidrInputs
    /\ expPc = "parse"
    /\ expIp = ZeroAddr
    /\ expIps = <<>>
    /\ expErr = FALSE

\* a loop that starts at the address as written
loopStartMut(cidr) == cidr.ip

\* fingerprint.go:624: the loop starts at ip.Mask(ipnet.Mask)
loopStart(cidr) == IPMask(cidr.ip, CIDRMask(cidr.prefix))

\* fingerprint.go:618-624: parse, return the error, or start the loop at
\* ip.Mask(ipnet.Mask).
ExpandParse ==
    /\ expPc = "parse"
    /\ IF ParseCIDROk(expCidr)
         THEN /\ expIp' = loopStart(expCidr)
              /\ expPc' = "loop"
              /\ expErr' = FALSE
         ELSE /\ expPc' = "returned"
              /\ expErr' = TRUE
              /\ expIp' = expIp
    /\ UNCHANGED <<expCidr, expIps>>
    /\ UNCHANGED ExpandOthers

\* fingerprint.go:624-626: one iteration: test ipnet.Contains(ip), append
\* ip.String(), inc(ip).  The slice can grow MaxWrap entries past the size of
\* the address space before the model stops following it.
ExpandLoop ==
    /\ expPc = "loop"
    /\ IF IPNetContains(expCidr, expIp)
         THEN /\ Len(expIps) < NumAddrs + MaxWrap
              /\ expIps' = Append(expIps, expIp)
              /\ expIp' = inc(expIp)
              /\ expPc' = "loop"
         ELSE /\ expPc' = "trim"
              /\ UNCHANGED <<expIps, expIp>>
    /\ UNCHANGED <<expCidr, expErr>>
    /\ UNCHANGED ExpandOthers

\* fingerprint.go:628-633
ExpandTrim ==
    /\ expPc = "trim"
    /\ expIps' = dropEnds(expIps)
    /\ expPc' = "returned"
    /\ UNCHANGED <<expCidr, expIp, expErr>>
    /\ UNCHANGED ExpandOthers

\* expandCIDR as a function of its argument: the loop of fingerprint.go:624-626
\* run to its end, then the trim of fingerprint.go:629-631.
RECURSIVE expandLoopFrom(_, _, _)
expandLoopFrom(cidr, ip, ips) ==
    IF IPNetContains(cidr, ip) /\ Len(ips) < NumAddrs + MaxWrap
      THEN expandLoopFrom(cidr, inc(ip), Append(ips, ip))
      ELSE ips

expandCIDR(cidr) ==
    IF ParseCIDROk(cidr)
      THEN [ips |-> dropEnds(expandLoopFrom(cidr, loopStart(cidr), <<>>)),
            err |-> FALSE]
      ELSE [ips |-> <<>>, err |-> TRUE]

(***************************************************************************)
(* The native probe backend: NewTCPScanner and TCPScanner.ScanPort.        *)
(***************************************************************************)
DefaultRate == 100
MaxNetworks == 2
MaxTargets == 3

\* NewTCPScanner (fingerprint.go:602-614): the rate the scanner keeps.
NewTCPScannerRate(rate) == IF rate <= 0 THEN DefaultRate ELSE rate

\* The configured ranges the scans are run on: a 2-address range, a single
\* address inside it, a 4-address range and a string ParseCIDR rejects.
NetworkChoices ==
    { [ip |-> ZeroAddr, prefix |-> AddrBits - 1],
      [ip |-> [ZeroAddr EXCEPT ![AddrBytes] = 1], prefix |-> AddrBits],
      [ip |-> [ZeroAddr EXCEPT ![AddrBytes - 1] = 1], prefix |-> AddrBits - 2],
      [ip |-> ZeroAddr, prefix |-> AddrBits + 1] }

RECURSIVE SeqsUpTo(_, _)
SeqsUpTo(S, n) ==
    IF n = 0 THEN {<<>>}
    ELSE LET shorter == SeqsUpTo(S, n - 1)
         IN  shorter \cup {Append(q, x) : q \in shorter, x \in S}

RateConfigs == {-1, 0, 1, 2}
ProbePorts == {22}

\* a collection that stops at the first range that does not parse
RECURSIVE collectIPsMut(_, _)
collectIPsMut(networks, k) ==
    IF k > Len(networks) THEN <<>>
    ELSE LET e == expandCIDR(networks[k])
         IN  IF e.err THEN <<>> ELSE e.ips \o collectIPsMut(networks, k + 1)

\* fingerprint.go:648-656: allIPs, the concatenation of the expansions of the
\* ranges that parse.
RECURSIVE collectIPs(_, _)
collectIPs(networks, k) ==
    IF k > Len(networks) THEN <<>>
    ELSE LET e == expandCIDR(networks[k])
         IN  (IF e.err THEN <<>> ELSE e.ips) \o collectIPs(networks, k + 1)

\* The Networks of a configuration: up to MaxNetworks ranges that expand to at
\* most MaxTargets targets in all.
NetworkConfigs ==
    {n \in SeqsUpTo(NetworkChoices, MaxNetworks) \ {<<>>} :
        Len(collectIPs(n, 1)) <= MaxTargets}

\* sem <- struct{}{} on a channel of capacity cap holding n tokens can proceed
semCanSendMut(n, cap) == n <= cap

semCanSend(n, cap) == n < cap

NoRet == [results |-> <<>>, err |-> "none"]

ScanPortOff ==
    /\ spNetworks = <<>>
    /\ spCfgRate = 0
    /\ spRate = 0
    /\ spPort = 0
    /\ spPc = "off"
    /\ spAllIPs = <<>>
    /\ spNext = 1
    /\ spSem = 0
    /\ spWg = 0
    /\ spMu = 0
    /\ spResults = <<>>
    /\ spWorker = <<>>
    /\ spOutcome = <<>>
    /\ spCtxDone = FALSE
    /\ spRet = NoRet

\* A scanner built by NewTCPScanner, and a call of ScanPort about to start.
ScanPortInit ==
    /\ spNetworks \in NetworkConfigs
    /\ spCfgRate \in RateConfigs
    /\ spRate = NewTCPScannerRate(spCfgRate)
    /\ spPort \in ProbePorts
    /\ spPc = "expand"
    /\ spAllIPs = <<>>
    /\ spNext = 1
    /\ spSem = 0
    /\ spWg = 0
    /\ spMu = 0
    /\ spResults = <<>>
    /\ spWorker = <<>>
    /\ spOutcome = <<>>
    /\ spCtxDone = FALSE
    /\ spRet = NoRet

\* The context's deadline passes or it is cancelled, at any moment.
SpCancel ==
    /\ spPc \notin {"off", "returned"}
    /\ ~spCtxDone
    /\ spCtxDone' = TRUE
    /\ UNCHANGED <<spNetworks, spCfgRate, spRate, spPort, spPc, spAllIPs, spNext,
                   spSem, spWg, spMu, spResults, spWorker, spOutcome, spRet>>
    /\ UNCHANGED ScanPortOthers

\* a ScanPort that goes on without targets
noValidIPsMut(allIPs) == FALSE

\* fingerprint.go:658: if len(allIPs) == 0
noValidIPs(allIPs) == Len(allIPs) = 0

\* fingerprint.go:647-667: collect allIPs; no IPs is an error.
SpExpand ==
    /\ spPc = "expand"
    /\ LET ips == collectIPs(spNetworks, 1)
       IN  /\ spAllIPs' = ips
           /\ spWorker' = [i \in 1 .. Len(ips) |-> "none"]
           /\ spOutcome' = [i \in 1 .. Len(ips) |-> "none"]
           /\ IF noValidIPs(ips)
                THEN /\ spPc' = "returned"
                     /\ spRet' = [results |-> <<>>, err |-> "no valid IPs to scan"]
                ELSE /\ spPc' = "check"
                     /\ spRet' = spRet
    /\ UNCHANGED <<spNetworks, spCfgRate, spRate, spPort, spNext, spSem, spWg, spMu,
                   spResults, spCtxDone>>
    /\ UNCHANGED ScanPortOthers

\* a select that never takes the case <-ctx.Done()
ctxDoneTakenMut(done) == FALSE

\* fingerprint.go:670-674: select takes case <-ctx.Done() when the context is
\* done, and default otherwise
ctxDoneTaken(done) == done

\* fingerprint.go:669-676 and 694: the head of the dispatch loop.  With targets
\* left: return on a done context, else wg.Add(1).  With none left: wg.Wait().
\* The return on a done context reads results without mu while goroutines may
\* run; the value read is that before or after any append in progress.
SpCheck ==
    /\ spPc = "check"
    /\ IF spNext > Len(spAllIPs)
         THEN /\ spPc' = "wait"
              /\ UNCHANGED <<spWg, spRet>>
         ELSE IF ctxDoneTaken(spCtxDone)
           THEN /\ spPc' = "returned"
                /\ spRet' = [results |-> spResults, err |-> "ctx"]
                /\ spWg' = spWg
           ELSE /\ spPc' = "acquire"
                /\ spWg' = spWg + 1
                /\ spRet' = spRet
    /\ UNCHANGED <<spNetworks, spCfgRate, spRate, spPort, spAllIPs, spNext, spSem,
                   spMu, spResults, spWorker, spOutcome, spCtxDone>>
    /\ UNCHANGED ScanPortOthers

\* a loop that goes on to the next target without starting a goroutine
goStartedMut(worker, target) == worker

\* fingerprint.go:679-691: go func(targetIP string) {...}(ip)
goStarted(worker, target) == [worker EXCEPT ![target] = "dial"]

\* fingerprint.go:677-691: acquire a slot (blocking while the channel is full)
\* and start the goroutine of the target.
SpAcquire ==
    /\ spPc = "acquire"
    /\ semCanSend(spSem, spRate)
    /\ spSem' = spSem + 1
    /\ spWorker' = goStarted(spWorker, spNext)
    /\ spNext' = spNext + 1
    /\ spPc' = "check"
    /\ UNCHANGED <<spNetworks, spCfgRate, spRate, spPort, spAllIPs, spWg, spMu,
                   spResults, spOutcome, spCtxDone, spRet>>
    /\ UNCHANGED ScanPortOthers

\* a goroutine that returns without its deferred release when the dial failed
afterDialMut(ok) == IF ok THEN "lock" ELSE "wgdone"

\* fingerprint.go:680-690: with a connection the goroutine goes on to record
\* the result; with an error it returns, and its deferred calls run: the
\* release of the slot, then wg.Done()
afterDial(ok) == IF ok THEN "lock" ELSE "release"

\* fingerprint.go:683-685: net.DialTimeout returns, with a connection or an error.
SpDial(i) ==
    /\ spWorker[i] = "dial"
    /\ \E ok \in BOOLEAN :
         /\ spOutcome' = [spOutcome EXCEPT ![i] = IF ok THEN "open" ELSE "closed"]
         /\ spWorker' = [spWorker EXCEPT ![i] = afterDial(ok)]
    /\ UNCHANGED <<spNetworks, spCfgRate, spRate, spPort, spPc, spAllIPs, spNext,
                   spSem, spWg, spMu, spResults, spCtxDone, spRet>>
    /\ UNCHANGED ScanPortOthers

\* fingerprint.go:686-687: conn.Close(); mu.Lock()
SpLock(i) ==
    /\ spWorker[i] = "lock"
    /\ spMu = 0
    /\ spMu' = i
    /\ spWorker' = [spWorker EXCEPT ![i] = "append"]
    /\ UNCHANGED <<spNetworks, spCfgRate, spRate, spPort, spPc, spAllIPs, spNext,
                   spSem, spWg, spResults, spOutcome, spCtxDone, spRet>>
    /\ UNCHANGED ScanPortOthers

\* fingerprint.go:688-689: append the result; mu.Unlock()
SpAppend(i) ==
    /\ spWorker[i] = "append"
    /\ spResults' = Append(spResults, [IP |-> spAllIPs[i], Port |-> spPort])
    /\ spMu' = 0
    /\ spWorker' = [spWorker EXCEPT ![i] = "release"]
    /\ UNCHANGED <<spNetworks, spCfgRate, spRate, spPort, spPc, spAllIPs, spNext,
                   spSem, spWg, spOutcome, spCtxDone, spRet>>
    /\ UNCHANGED ScanPortOthers

\* fingerprint.go:681: the deferred release of the slot, <-sem
SpRelease(i) ==
    /\ spWorker[i] = "release"
    /\ spSem' = spSem - 1
    /\ spWorker' = [spWorker EXCEPT ![i] = "wgdone"]
    /\ UNCHANGED <<spNetworks, spCfgRate, spRate, spPort, spPc, spAllIPs, spNext,
                   spWg, spMu, spResults, spOutcome, spCtxDone, spRet>>
    /\ UNCHANGED ScanPortOthers

\* fingerprint.go:680: the deferred wg.Done()
SpWgDone(i) ==
    /\ spWorker[i] = "wgdone"
    /\ spWg' = spWg - 1
    /\ spWorker' = [spWorker EXCEPT ![i] = "exited"]
    /\ UNCHANGED <<spNetworks, spCfgRate, spRate, spPort, spPc, spAllIPs, spNext,
                   spSem, spMu, spResults, spOutcome, spCtxDone, spRet>>
    /\ UNCHANGED ScanPortOthers

\* wg.Wait() returns once the counter is zero
wgWaitDoneMut(wg) == TRUE

wgWaitDone(wg) == wg = 0

\* fingerprint.go:694-695: wg.Wait(); return results, nil
SpWait ==
    /\ spPc = "wait"
    /\ wgWaitDone(spWg)
    /\ spPc' = "returned"
    /\ spRet' = [results |-> spResults, err |-> "nil"]
    /\ UNCHANGED <<spNetworks, spCfgRate, spRate, spPort, spAllIPs, spNext, spSem,
                   spWg, spMu, spResults, spWorker, spOutcome, spCtxDone>>
    /\ UNCHANGED ScanPortOthers

SpWorkerStep ==
    \E i \in 1 .. Len(spAllIPs) :
        SpDial(i) \/ SpLock(i) \/ SpAppend(i) \/ SpRelease(i) \/ SpWgDone(i)

(***************************************************************************)
(* Text.  A Go string is modelled as the sequence of its runes (code       *)
(* points); the texts handled here are ASCII, where runes and bytes agree. *)
(***************************************************************************)
\* the string literals of fingerprint.go, as rune sequences
Txt ==
    [ \* 'ssh'
      ssh |->
          <<115,115,104>>,
      \* 'ftp'
      ftp |->
          <<102,116,112>>,
      \* 'smtp'
      smtp |->
          <<115,109,116,112>>,
      \* 'mail'
      mail |->
          <<109,97,105,108>>,
      \* 'http'
      http |->
          <<104,116,116,112>>,
      \* 'mysql'
      mysql |->
          <<109,121,115,113,108>>,
      \* 'postgresql'
      postgresql |->
          <<112,111,115,116,103,114,101,115,113,108>>,
      \* 'postgres'
      postgres |->
          <<112,111,115,116,103,114,101,115>>,
      \* 'redis'
      redis |->
          <<114,101,100,105,115>>,
      \* 'mongodb'
      mongodb |->
          <<109,111,110,103,111,100,98>>,
      \* 'mongo'
      mongo |->
          <<109,111,110,103,111>>,
      \* 'imap'
      imap |->
          <<105,109,97,112>>,
      \* 'pop'
      pop |->
          <<112,111,112>>,
      \* 'telnet'
      telnet |->
          <<116,101,108,110,101,116>>,
      \* 'SSH-'
      SSHdash |->
          <<83,83,72,45>>,
      \* '220'
      code220 |->
          <<50,50,48>>,
      \* '...'
      dots |->
          <<46,46,46>>,
      \* 'PONG'
      PONG |->
          <<80,79,78,71>>,
      \* 'NOAUTH'
      NOAUTH |->
          <<78,79,65,85,84,72>>,
      \* 'server:'
      serverColon |->
          <<115,101,114,118,101,114,58>>,
      \* 'HTTP/'
      HTTPslash |->
          <<72,84,84,80,47>>,
      \* '<title>'
      titleOpen |->
          <<60,116,105,116,108,101,62>>,
      \* '</title>'
      titleClose |->
          <<60,47,116,105,116,108,101,62>>,
      \* 'redis_version:'
      redisVersion |->
          <<114,101,100,105,115,95,118,101,114,115,105,111,110,58>>,
      \* 'MySQL '
      MySQLsp |->
          <<77,121,83,81,76,32>>,
      \* 'MongoDB'
      MongoDB |->
          <<77,111,110,103,111,68,66>>,
      \* 'PostgreSQL (SSL not supported)'
      PgNoSSL |->
          <<80,111,115,116,103,114,101,83,81,76,32,40,83,83,76,32,110,111,116,32,115,117,112,112,111,114,116,101,100,41>>,
      \* 'PostgreSQL (SSL supported)'
      PgSSL |->
          <<80,111,115,116,103,114,101,83,81,76,32,40,83,83,76,32,115,117,112,112,111,114,116,101,100,41>>,
      \* 'Redis server'
      RedisServer |->
          <<82,101,100,105,115,32,115,101,114,118,101,114>>,
      \* 'PostgreSQL'
      PostgreSQL |->
          <<80,111,115,116,103,114,101,83,81,76>>,
      \* 'Redis'
      Redis |->
          <<82,101,100,105,115>>,
      \* 'Redis (authentication required)'
      RedisAuthRequired |->
          <<82,101,100,105,115,32,40,97,117,116,104,101,110,116,105,99,97,116,105,111,110,32,114,101,113,117,105,114,101,100,41>>,
      \* '250'
      code250 |->
          <<50,53,48>>,
      \* 'Redis server (authentication required)'
      RedisAuth |->
          <<82,101,100,105,115,32,115,101,114,118,101,114,32,40,97,117,116,104,101,110,116,105,99,97,116,105,111,110,32,114,101,113,117,105,114,101,100,41>> ]

\* unicode.IsSpace on the Latin-1 range: \t \n \v \f \r space U+0085 U+00A0
IsSpace(c) == c \in {9, 10, 11, 12, 13, 32, 133, 160}
\* the regexp classes \s, \d and \w
ReSpace == {9, 10, 12, 13, 32}
Digits == 48 .. 57
WordRunes == (48 .. 57) \cup (65 .. 90) \cup (97 .. 122) \cup {95}

RECURSIVE TrimLeft(_)
TrimLeft(s) ==
    IF s = <<>> THEN s
    ELSE IF IsSpace(Head(s)) THEN TrimLeft(Tail(s)) ELSE s

RECURSIVE TrimRight(_)
TrimRight(s) ==
    IF s = <<>> THEN s
    ELSE IF IsSpace(s[Len(s)]) THEN TrimRight(SubSeq(s, 1, Len(s) - 1)) ELSE s

\* strings.TrimSpace
TrimSpace(s) == TrimRight(TrimLeft(s))

\* strings.ToLower on ASCII letters
LowerRune(c) == IF c \in 65 .. 90 THEN c + 32 ELSE c

RECURSIVE ToLower(_)
ToLower(s) == IF s = <<>> THEN <<>> ELSE <<LowerRune(Head(s))>> \o ToLower(Tail(s))

\* s[i:] starts with p (i is 1-based)
MatchAt(s, i, p) ==
    /\ i >= 1
    /\ i + Len(p) - 1 <= Len(s)
    /\ \A k \in 1 .. Len(p) : s[i + k - 1] = p[k]

\* strings.HasPrefix
HasPrefix(s, p) == MatchAt(s, 1, p)

\* strings.Index, 1-based; 0 when p does not occur in s at or after from
RECURSIVE IndexFrom(_, _, _)
IndexFrom(s, p, from) ==
    IF from + Len(p) - 1 > Len(s) THEN 0
    ELSE IF MatchAt(s, from, p) THEN from
    ELSE IndexFrom(s, p, from + 1)

\* strings.Contains
Contains(s, p) == IndexFrom(s, p, 1) # 0

\* end (exclusive, 1-based) of the longest run of runes of the class starting at i
RECURSIVE RunEnd(_, _, _)
RunEnd(s, i, class) ==
    IF i <= Len(s) /\ s[i] \in class THEN RunEnd(s, i + 1, class) ELSE i

\* the same for the runes outside the class
RECURSIVE RunEndNot(_, _, _)
RunEndNot(s, i, class) ==
    IF i <= Len(s) /\ s[i] \notin class THEN RunEndNot(s, i + 1, class) ELSE i

\* the filter loop of sanitizeBanner (fingerprint.go:481-488): a rune from
\* 32 to 126 is written as it is, \n \r \t as a space, any other is dropped
filterPrintable(s) ==
    LET written == [i \in 1 .. Len(s) |-> IF s[i] \in {10, 13, 9} THEN 32 ELSE s[i]]
        kept(r) == r >= 32 /\ r < 127
    IN  SelectSeq(written, kept)

BannerLimit == 512

\* the filtered text left at its full length
truncateBannerMut(out) == out


\* the truncation of sanitizeBanner (fingerprint.go:491-494)
truncateBanner(out) ==
    IF Len(out) > BannerLimit THEN SubSeq(out, 1, BannerLimit) \o Txt.dots ELSE out

\* sanitizeBanner (fingerprint.go:476-497)
sanitizeBanner(s) == TrimSpace(truncateBanner(filterPrintable(TrimSpace(s))))

\* The first pattern of extractVersion, (\d+\.\d+(?:\.\d+)?(?:[.-]\w+)?), tried
\* at position i: the end (exclusive) of the match, 0 when there is none.
VersionMatchEnd(s, i) ==
    LET a == RunEnd(s, i, Digits)
    IN  IF a = i \/ a > Len(s) \/ s[a] # 46 THEN 0
        ELSE LET b == RunEnd(s, a + 1, Digits)
             IN  IF b = a + 1 THEN 0
                 ELSE LET c0 == IF b <= Len(s) /\ s[b] = 46 THEN RunEnd(s, b + 1, Digits) ELSE b
                          c == IF c0 > b + 1 THEN c0 ELSE b
                          d0 == IF c <= Len(s) /\ s[c] \in {46, 45} THEN RunEnd(s, c + 1, WordRunes) ELSE c
                          d == IF d0 > c + 1 THEN d0 ELSE c
                      IN  d

RECURSIVE FirstVersionFrom(_, _)
FirstVersionFrom(s, i) ==
    IF i > Len(s) THEN <<>>
    ELSE LET e == VersionMatchEnd(s, i)
         IN  IF e # 0 THEN SubSeq(s, i, e - 1) ELSE FirstVersionFrom(s, i + 1)

\* The second pattern, v(\d+\.\d+(?:\.\d+)?), tried at position i.
VPrefixedMatchEnd(s, i) ==
    IF i > Len(s) \/ s[i] # 118 THEN 0
    ELSE LET a == RunEnd(s, i + 1, Digits)
         IN  IF a = i + 1 \/ a > Len(s) \/ s[a] # 46 THEN 0
             ELSE LET b == RunEnd(s, a + 1, Digits)
                  IN  IF b = a + 1 THEN 0
                      ELSE LET c0 == IF b <= Len(s) /\ s[b] = 46 THEN RunEnd(s, b + 1, Digits) ELSE b
                           IN  IF c0 > b + 1 THEN c0 ELSE b

RECURSIVE FirstVVersionFrom(_, _)
FirstVVersionFrom(s, i) ==
    IF i > Len(s) THEN <<>>
    ELSE LET e == VPrefixedMatchEnd(s, i)
         IN  IF e # 0 THEN SubSeq(s, i + 1, e - 1) ELSE FirstVVersionFrom(s, i + 1)

\* extractVersion (fingerprint.go:500-514): the first pattern that matches wins
extractVersion(banner) ==
    LET v1 == FirstVersionFrom(banner, 1)
    IN  IF v1 # <<>> THEN v1 ELSE FirstVVersionFrom(banner, 1)

\* guessServiceFromBanner (fingerprint.go:517-546)
guessServiceFromBanner(banner) ==
    LET lower == ToLower(banner)
    IN  IF Contains(lower, Txt.ssh) THEN "ssh"
        ELSE IF Contains(lower, Txt.ftp) THEN "ftp"
        ELSE IF Contains(lower, Txt.smtp) \/ Contains(lower, Txt.mail) THEN "smtp"
        ELSE IF Contains(lower, Txt.http) THEN "http"
        ELSE IF Contains(lower, Txt.mysql) THEN "mysql"
        ELSE IF Contains(lower, Txt.postgresql) \/ Contains(lower, Txt.postgres) THEN "postgresql"
        ELSE IF Contains(lower, Txt.redis) THEN "redis"
        ELSE IF Contains(lower, Txt.mongodb) \/ Contains(lower, Txt.mongo) THEN "mongodb"
        ELSE IF Contains(lower, Txt.imap) THEN "imap"
        ELSE IF Contains(lower, Txt.pop) THEN "pop3"
        ELSE IF Contains(lower, Txt.telnet) THEN "telnet"
        ELSE ""

\* the ports of the table of getDefaultServiceName (fingerprint.go:550-575)
DefaultNamePorts ==
    {21, 22, 23, 25, 53, 80, 110, 143, 443, 445, 465, 587, 993, 995, 1433, 1521,
     3306, 3389, 5432, 5900, 6379, 8080, 8443, 27017}

defaultServiceTable(port) ==
    CASE port = 21 -> "ftp"
      [] port = 22 -> "ssh"
      [] port = 23 -> "telnet"
      [] port = 25 -> "smtp"
      [] port = 53 -> "dns"
      [] port = 80 -> "http"
      [] port = 110 -> "pop3"
      [] port = 143 -> "imap"
      [] port = 443 -> "https"
      [] port = 445 -> "smb"
      [] port = 465 -> "smtps"
      [] port = 587 -> "submission"
      [] port = 993 -> "imaps"
      [] port = 995 -> "pop3s"
      [] port = 1433 -> "mssql"
      [] port = 1521 -> "oracle"
      [] port = 3306 -> "mysql"
      [] port = 3389 -> "rdp"
      [] port = 5432 -> "postgresql"
      [] port = 5900 -> "vnc"
      [] port = 6379 -> "redis"
      [] port = 8080 -> "http-proxy"
      [] port = 8443 -> "https-alt"
      [] port = 27017 -> "mongodb"

\* getDefaultServiceName (fingerprint.go:549-581)
getDefaultServiceName(port) ==
    IF port \in DefaultNamePorts THEN defaultServiceTable(port) ELSE "unknown"

(***************************************************************************)
(* The native fingerprinter (fingerprint.go:15-581).  A peer is what the   *)
(* address:port does when probed: whether the dial succeeds, the bytes it   *)
(* sends first, whether it then closes (EOF) or stays silent until the     *)
(* read deadline, and what it sends after a second request.                *)
(***************************************************************************)
Peer ==
    [ \* the dial fails (closed port, unreachable host, timeout)
      Down |->
          [dial |-> FALSE, eof |-> FALSE,
           data |-> <<>>,
           data2 |-> <<>>],
      \* accepts and sends nothing until the read deadline
      Silent |->
          [dial |-> TRUE, eof |-> FALSE,
           data |-> <<>>,
           data2 |-> <<>>],
      \* accepts and closes at once
      Closes |->
          [dial |-> TRUE, eof |-> TRUE,
           data |-> <<>>,
           data2 |-> <<>>],
      \* 'SSH-2.0-OpenSSH_9.0\r\n'
      SSH |->
          [dial |-> TRUE, eof |-> FALSE,
           data |-> <<83,83,72,45,50,46,48,45,79,112,101,110,83,83,72,95,57,46,48,13,10>>,
           data2 |-> <<>>],
      \* '220 ProFTPD 1.3.5 Server\r\n'
      FTP |->
          [dial |-> TRUE, eof |-> FALSE,
           data |-> <<50,50,48,32,80,114,111,70,84,80,68,32,49,46,51,46,53,32,83,101,114,118,101,114,13,10>>,
           data2 |-> <<>>],
      \* 'HTTP/1.1 200 OK\r\nServer: nginx/1.18.0\r\n\r\n<title> Hi </title>'
      HTTP |->
          [dial |-> TRUE, eof |-> TRUE,
           data |-> <<72,84,84,80,47,49,46,49,32,50,48,48,32,79,75,13,10,83,101,114,118,101,114,58,32,110,103,105,110,120,47,49,46,49,56,46,48,13,10,13,10,60,116,105,116,108,101,62,32,72,105,32,60,47,116,105,116,108,101,62>>,
           data2 |-> <<>>],
      \* a MySQL handshake packet: header, protocol 10, version, NUL
      MySQL |->
          [dial |-> TRUE, eof |-> FALSE,
           data |-> <<74,0,0,0,10,56,46,48,46,51,51,0,1,2>>,
           data2 |-> <<>>],
      \* 'N'
      PgN |->
          [dial |-> TRUE, eof |-> FALSE,
           data |-> <<78>>,
           data2 |-> <<>>],
      \* '+PONG\r\n'
      Redis |->
          [dial |-> TRUE, eof |-> FALSE,
           data |-> <<43,80,79,78,71,13,10>>,
           data2 |-> <<35,32,83,101,114,118,101,114,13,10,114,101,100,105,115,95,118,101,114,115,105,111,110,58,55,46,48,46,53,13,10>>],
      \* control bytes around a text with no keyword, no newline, then EOF
      Ctrl |->
          [dial |-> TRUE, eof |-> TRUE,
           data |-> <<1,32,119,101,108,99,111,109,101,7,9,118,50,46,49,32>>,
           data2 |-> <<>>],
      \* a line that never ends: the read times out
      Partial |->
          [dial |-> TRUE, eof |-> FALSE,
           data |-> <<50,50,48,32,109,97,105,108>>,
           data2 |-> <<>>] ]

Peers == {Peer[k] : k \in DOMAIN Peer}

MaxBanner == 1024

NilMap == [nil |-> TRUE, kv |-> {}]
EmptyMap == [nil |-> FALSE, kv |-> {}]
MapPut(m, k, v) == [nil |-> FALSE, kv |-> {e \in m.kv : e[1] # k} \cup {<<k, v>>}]

\* var info ServiceInfo
EmptyInfo ==
    [ServiceName |-> "", ServiceVersion |-> <<>>, Banner |-> <<>>, Fingerprint |-> NilMap]

NamedInfo(name) == [EmptyInfo EXCEPT !.ServiceName = name]

\* conn.Read(buf) with len(buf) = MaxBanner: the bytes read
connRead(data, size) == SubSeq(data, 1, Min(Len(data), size))

\* bufio.Reader.ReadString('\n'): the text up to and including the first
\* newline; without one, everything received, with io.EOF or a timeout error
readString(peer) ==
    LET nl == IndexFrom(peer.data, <<10>>, 1)
    IN  IF nl # 0 THEN [text |-> SubSeq(peer.data, 1, nl), err |-> "nil"]
        ELSE [text |-> peer.data, err |-> IF peer.eof THEN "EOF" ELSE "timeout"]

\* probeGeneric (fingerprint.go:103-123)
probeGeneric(peer) ==
    IF ~peer.dial THEN EmptyInfo
    ELSE LET got == connRead(peer.data, MaxBanner)
         IN  IF Len(got) > 0 THEN [EmptyInfo EXCEPT !.Banner = sanitizeBanner(got)]
             ELSE EmptyInfo

\* strings.SplitN(banner, "-", 3)[2], TRUE/FALSE whether there are 3 parts
ThirdPart(banner) ==
    LET d1 == IndexFrom(banner, <<45>>, 1)
        d2 == IF d1 = 0 THEN 0 ELSE IndexFrom(banner, <<45>>, d1 + 1)
    IN  IF d2 = 0 THEN [ok |-> FALSE, text |-> <<>>]
        ELSE [ok |-> TRUE, text |-> SubSeq(banner, d2 + 1, Len(banner))]

\* probeSSH (fingerprint.go:126-156)
probeSSH(peer) ==
    IF ~peer.dial THEN NamedInfo("ssh")
    ELSE LET r == readString(peer)
         IN  IF r.err = "timeout" THEN NamedInfo("ssh")
             ELSE LET third == ThirdPart(r.text)
                  IN  [NamedInfo("ssh") EXCEPT
                         !.Banner = sanitizeBanner(r.text),
                         !.ServiceVersion =
                             IF HasPrefix(r.text, Txt.SSHdash) /\ third.ok
                               THEN TrimSpace(third.text) ELSE <<>>]

\* (?i)Server:\s*([^\r\n]+) tried at an occurrence p of "server:": \s* gives
\* back what it took until one rune other than CR and LF follows
RECURSIVE ServerCaptureBack(_, _, _)
ServerCaptureBack(s, q, k) ==
    IF k < 0 THEN [ok |-> FALSE, text |-> <<>>]
    ELSE IF q + k <= Len(s) /\ s[q + k] \notin {13, 10}
      THEN [ok |-> TRUE, text |-> SubSeq(s, q + k, RunEndNot(s, q + k, {13, 10}) - 1)]
      ELSE ServerCaptureBack(s, q, k - 1)

RECURSIVE ServerHeaderFrom(_, _)
ServerHeaderFrom(s, from) ==
    LET p == IndexFrom(ToLower(s), Txt.serverColon, from)
    IN  IF p = 0 THEN [ok |-> FALSE, text |-> <<>>]
        ELSE LET q == p + Len(Txt.serverColon)
                 c == ServerCaptureBack(s, q, RunEnd(s, q, ReSpace) - q)
             IN  IF c.ok THEN c ELSE ServerHeaderFrom(s, p + 1)

\* HTTP/[\d.]+\s+(\d+)
RECURSIVE StatusCodeFrom(_, _)
StatusCodeFrom(s, from) ==
    LET p == IndexFrom(s, Txt.HTTPslash, from)
    IN  IF p = 0 THEN [ok |-> FALSE, text |-> <<>>]
        ELSE LET a == p + Len(Txt.HTTPslash)
                 b == RunEnd(s, a, Digits \cup {46})
                 c == RunEnd(s, b, ReSpace)
                 d == RunEnd(s, c, Digits)
             IN  IF b > a /\ c > b /\ d > c
                   THEN [ok |-> TRUE, text |-> SubSeq(s, c, d - 1)]
                   ELSE StatusCodeFrom(s, p + 1)

\* (?i)<title>([^<]+)</title>
RECURSIVE TitleFrom(_, _)
TitleFrom(s, from) ==
    LET p == IndexFrom(ToLower(s), Txt.titleOpen, from)
    IN  IF p = 0 THEN [ok |-> FALSE, text |-> <<>>]
        ELSE LET a == p + Len(Txt.titleOpen)
                 b == RunEndNot(s, a, {60})
             IN  IF b > a /\ MatchAt(ToLower(s), b, Txt.titleClose)
                   THEN [ok |-> TRUE, text |-> SubSeq(s, a, b - 1)]
                   ELSE TitleFrom(s, p + 1)

\* probeHTTP (fingerprint.go:159-221); the dial includes the TLS handshake
probeHTTP(peer, useTLS) ==
    LET name == IF useTLS THEN "https" ELSE "http"
    IN  IF ~peer.dial THEN NamedInfo(name)
        ELSE LET response == connRead(peer.data, MaxBanner)
                 server == ServerHeaderFrom(response, 1)
                 status == StatusCodeFrom(response, 1)
                 title == TitleFrom(response, 1)
                 m1 == IF status.ok THEN MapPut(EmptyMap, "status_code", status.text)
                       ELSE EmptyMap
                 m2 == IF title.ok THEN MapPut(m1, "title", TrimSpace(title.text)) ELSE m1
             IN  IF Len(response) > 0
                   THEN [ServiceName |-> name,
                         ServiceVersion |-> IF server.ok THEN TrimSpace(server.text) ELSE <<>>,
                         Banner |-> sanitizeBanner(response),
                         Fingerprint |-> m2]
                   ELSE NamedInfo(name)

\* probeFTP (fingerprint.go:224-247) and probeSMTP (fingerprint.go:273-295):
\* the banner line, and a version when the line starts with 220
probeBanner220(peer, name) ==
    IF ~peer.dial THEN NamedInfo(name)
    ELSE LET banner == readString(peer).text
         IN  [NamedInfo(name) EXCEPT
                !.Banner = sanitizeBanner(banner),
                !.ServiceVersion =
                    IF HasPrefix(banner, Txt.code220) THEN extractVersion(banner) ELSE <<>>]

probeFTP(peer) == probeBanner220(peer, "ftp")
probeSMTP(peer) == probeBanner220(peer, "smtp")

\* probeTelnet (fingerprint.go:250-270)
probeTelnet(peer) ==
    IF ~peer.dial THEN NamedInfo("telnet")
    ELSE LET got == connRead(peer.data, MaxBanner)
         IN  IF Len(got) > 0 THEN [NamedInfo("telnet") EXCEPT !.Banner = sanitizeBanner(got)]
             ELSE NamedInfo("telnet")

\* probePOP3 (fingerprint.go:298-316) and probeIMAP (fingerprint.go:319-337)
probeBannerLine(peer, name) ==
    IF ~peer.dial THEN NamedInfo(name)
    ELSE [NamedInfo(name) EXCEPT !.Banner = sanitizeBanner(readString(peer).text)]

probePOP3(peer) == probeBannerLine(peer, "pop3")
probeIMAP(peer) == probeBannerLine(peer, "imap")

\* probeMySQL (fingerprint.go:340-372): the NUL-terminated version after the
\* 4-byte header and the protocol byte
probeMySQL(peer) ==
    IF ~peer.dial THEN NamedInfo("mysql")
    ELSE LET buf == connRead(peer.data, MaxBanner)
             n == Len(buf)
             end == RunEndNot(buf, 6, {0})
         IN  IF n > 5 /\ end > 6
               THEN [NamedInfo("mysql") EXCEPT
                       !.ServiceVersion = SubSeq(buf, 6, end - 1),
                       !.Banner = Txt.MySQLsp \o SubSeq(buf, 6, end - 1)]
               ELSE NamedInfo("mysql")

\* probePostgreSQL (fingerprint.go:375-404): one byte answers the SSL request
probePostgreSQL(peer) ==
    IF ~peer.dial THEN NamedInfo("postgresql")
    ELSE LET buf == connRead(peer.data, 1)
         IN  IF Len(buf) > 0 /\ buf[1] = 78
               THEN [NamedInfo("postgresql") EXCEPT !.Banner = Txt.PgNoSSL]
             ELSE IF Len(buf) > 0 /\ buf[1] = 83
               THEN [NamedInfo("postgresql") EXCEPT !.Banner = Txt.PgSSL]
             ELSE NamedInfo("postgresql")

\* redis_version:(\S+)
RECURSIVE RedisVersionFrom(_, _)
RedisVersionFrom(s, from) ==
    LET p == IndexFrom(s, Txt.redisVersion, from)
    IN  IF p = 0 THEN [ok |-> FALSE, text |-> <<>>]
        ELSE LET a == p + Len(Txt.redisVersion)
                 b == RunEndNot(s, a, ReSpace)
             IN  IF b > a THEN [ok |-> TRUE, text |-> SubSeq(s, a, b - 1)]
                 ELSE RedisVersionFrom(s, p + 1)

\* probeRedis (fingerprint.go:407-446)
probeRedis(peer) ==
    IF ~peer.dial THEN NamedInfo("redis")
    ELSE LET response == connRead(peer.data, MaxBanner)
             infoResp == connRead(peer.data2, MaxBanner)
             version == RedisVersionFrom(infoResp, 1)
         IN  IF Len(response) > 0
               THEN [NamedInfo("redis") EXCEPT
                       !.Banner = IF Contains(response, Txt.PONG) THEN Txt.RedisServer
                                  ELSE IF Contains(response, Txt.NOAUTH) THEN Txt.RedisAuth
                                  ELSE <<>>,
                       !.ServiceVersion =
                           IF Len(infoResp) > 0 /\ version.ok THEN version.text ELSE <<>>]
               ELSE NamedInfo("redis")

\* probeMongoDB (fingerprint.go:449-473)
probeMongoDB(peer) ==
    IF ~peer.dial THEN NamedInfo("mongodb")
    ELSE LET got == connRead(peer.data, MaxBanner)
         IN  [NamedInfo("mongodb") EXCEPT
                !.Banner = IF Len(got) > 0 THEN sanitizeBanner(got) ELSE Txt.MongoDB]

\* the switch of fingerprintPort (fingerprint.go:59-87)
probeForPort(port, peer) ==
    CASE port = 21 -> probeFTP(peer)
      [] port = 22 -> probeSSH(peer)
      [] port = 23 -> probeTelnet(peer)
      [] port \in {25, 465, 587} -> probeSMTP(peer)
      [] port \in {80, 8080, 8000, 8888} -> probeHTTP(peer, FALSE)
      [] port \in {443, 8443} -> probeHTTP(peer, TRUE)
      [] port = 110 -> probePOP3(peer)
      [] port = 143 -> probeIMAP(peer)
      [] port = 3306 -> probeMySQL(peer)
      [] port = 5432 -> probePostgreSQL(peer)
      [] port = 6379 -> probeRedis(peer)
      [] port = 27017 -> probeMongoDB(peer)
      [] OTHER -> probeGeneric(peer)

\* a guess from the banner that replaces the name the probe set
withGuessedNameMut(info) ==
    IF info.Banner # <<>>
      THEN [info EXCEPT !.ServiceName = guessServiceFromBanner(info.Banner)]
      ELSE info

\* fingerprint.go:89-92: a name guessed from the banner when the probe set none
withGuessedName(info) ==
    IF info.ServiceName = "" /\ info.Banner # <<>>
      THEN [info EXCEPT !.ServiceName = guessServiceFromBanner(info.Banner)]
      ELSE info

\* fingerprint.go:94-97: the port's default name when there is still none
withDefaultNameMut(info, port) ==
    [info EXCEPT !.ServiceName = getDefaultServiceName(port)]

withDefaultName(info, port) ==
    IF info.ServiceName = ""
      THEN [info EXCEPT !.ServiceName = getDefaultServiceName(port)]
      ELSE info

\* Fingerprinter.fingerprintPort (fingerprint.go:55-100)
fingerprintPort(port, peer) ==
    withDefaultName(withGuessedName(probeForPort(port, peer)), port)

\* The ports fingerprinted: those with a probe of their own, those of the
\* default-name table, and two ports in neither.
FingerprintPorts == DefaultNamePorts \cup {8000, 8888, 9999, 1}

FingerprintOff ==
    /\ fpPort = 0
    /\ fpPeer = Peer.Down
    /\ fpPc = "off"
    /\ fpInfo = EmptyInfo

\* a call fingerprintPort(ctx, ip, port) against a peer
FingerprintInit ==
    /\ fpPort \in FingerprintPorts
    /\ fpPeer \in Peers
    /\ fpPc = "probe"
    /\ fpInfo = EmptyInfo

\* fingerprint.go:59-87
FpProbe ==
    /\ fpPc = "probe"
    /\ fpInfo' = probeForPort(fpPort, fpPeer)
    /\ fpPc' = "guess"
    /\ UNCHANGED <<fpPort, fpPeer>>
    /\ UNCHANGED FingerprintOthers

\* fingerprint.go:89-92
FpGuess ==
    /\ fpPc = "guess"
    /\ fpInfo' = withGuessedName(fpInfo)
    /\ fpPc' = "default"
    /\ UNCHANGED <<fpPort, fpPeer>>
    /\ UNCHANGED FingerprintOthers

\* fingerprint.go:94-99
FpDefault ==
    /\ fpPc = "default"
    /\ fpInfo' = withDefaultName(fpInfo, fpPort)
    /\ fpPc' = "returned"
    /\ UNCHANGED <<fpPort, fpPeer>>
    /\ UNCHANGED FingerprintOthers

(***************************************************************************)
(* The orchestrator (main.go).  The file holds two versions of main: the   *)
(* one that submits from a per-port callback (lines 28-257, "streaming")   *)
(* and the one that scans first and submits per host afterwards (lines     *)
(* 293-526, "batch").  The guard, the /trigger handler and the scheduling  *)
(* are the same in both.  A run of the model is one process started with   *)
(* one configuration; the readiness poll is over and main is about to make *)
(* the initial call of runScan, with the HTTP server already listening.    *)
(***************************************************************************)

SeqRange(s) == {s[k] : k \in 1 .. Len(s)}

\* bounds of the environment
MaxCron == 1
MaxTriggers == 1
\* totalPorts and batchSize of ScanAllPorts (65535 and 1000), scaled down
totalPorts == 3
batchSize == 2

\* cfg.Networks: two single-address ranges, and the address each expands to
Networks == <<"10.0.0.1/32", "10.0.0.2/32">>
NetworkHost(network) == IF network = "10.0.0.1/32" THEN "10.0.0.1" ELSE "10.0.0.2"
\* CommonPorts (zmap.go:254-280)
CommonPorts ==
    <<21, 22, 23, 25, 53, 80, 110, 143, 443, 445, 993, 995, 1433, 1521, 3306, 3389,
      5432, 5900, 6379, 8080, 8443, 27017>>
\* the values of cfg.Ports: none, one port, two ports
PortConfigs == {<<>>, <<22>>, <<22, 2>>}

\* allIPs of ScanPort: the networks' addresses in order
AllIPs == [k \in 1 .. Len(Networks) |-> NetworkHost(Networks[k])]

\* the sequences that list each element of the set S once
Orderings(S) ==
    {s \in [1 .. Cardinality(S) -> S] : \A a, b \in 1 .. Cardinality(S) : a # b => s[a] # s[b]}

\* batchPorts of one batch of ScanAllPorts: batchStart .. min(batchStart+batchSize-1, totalPorts)
RECURSIVE PortsFromTo(_, _)
PortsFromTo(a, b) == IF a > b THEN <<>> ELSE <<a>> \o PortsFromTo(a + 1, b)

\* a batch whose end is not cut at totalPorts
BatchPortsMut(batchStart) == PortsFromTo(batchStart, batchStart + batchSize - 1)

BatchPorts(batchStart) == PortsFromTo(batchStart, Min(batchStart + batchSize - 1, totalPorts))

NoProc == <<>>
RunProc(i) == <<"runScan", i>>
ReqProc(r) == <<"trigger", r>>

\* one invocation of runScan, at its first statement
\* no ScanResultHost at hand
NoHost == [IPAddress |-> "", Ports |-> <<>>]

NewRun(kind, req) ==
    [kind |-> kind,            \* "initial" | "cron" | "trigger"
     req |-> req,              \* the /trigger request that spawned it, else 0
     pc |-> "lock",
     ctxDone |-> FALSE,        \* the 2h deadline of ctx has passed
     net |-> 0,                \* zmap ScanAllPorts: index of the network scanned
     batchStart |-> 0,         \* tcp ScanAllPorts: batchStart
     ports |-> <<>>,           \* ports the current port loop has still to scan
     results |-> <<>>,         \* results of the current ScanPorts / scanNetworkAllPorts call
     hostPorts |-> <<>>,       \* what the backend call of runScan returned (endpoints, in order)
     err |-> "nil",            \* and its error
     queue |-> <<>>,           \* the callback's results still to fingerprint and submit
     pending |-> NoHost,       \* the callback's ScanResultHost built and not yet submitted
     hostsLeft |-> {},         \* batch: hosts of hostPorts still to fingerprint and submit
     reported |-> {},          \* endpoints the backend handed to runScan as open
     fingerprinted |-> {},     \* endpoints handed to fingerprintPort
     probed |-> {},            \* <<k, port>>: port was handed to the per-port probe, for
                               \* network k (zmap) or for all networks at once (tcp, k = 0)
     failed |-> {},            \* <<k, port>>: the zmap run for it failed though it listens
     submitted |-> <<>>]       \* the ScanResults handed to apiClient.SubmitResults

GuardInit ==
    /\ scanMutex = NoProc
    /\ isScanning = FALSE
    /\ lastScanTime = 0
    /\ now = 1
    /\ mainPc = "initial"
    /\ cronFired = 0
    /\ runs = <<NewRun("initial", 0)>>
    /\ reqs = <<>>

GuardOff ==
    /\ scanMutex = NoProc
    /\ isScanning = FALSE
    /\ lastScanTime = 0
    /\ now = 0
    /\ mainPc = "off"
    /\ cronFired = 0
    /\ runs = <<>>
    /\ reqs = <<>>
    /\ cfg = [version |-> "off", useZmap |-> FALSE, ScanAllPorts |-> FALSE, Ports |-> <<>>]
    /\ listening = {}

Configs ==
    [version : {"streaming", "batch"}, useZmap : BOOLEAN, ScanAllPorts : BOOLEAN,
     Ports : PortConfigs]

(***************************************************************************)
(* The concurrency guard of runScan (main.go:87-102, 352-367).             *)
(***************************************************************************)
SetRun(i, r) == [runs EXCEPT ![i] = r]

\* main.go:88: scanMutex.Lock()
RsLock(i) ==
    /\ runs[i].pc = "lock"
    /\ scanMutex = NoProc
    /\ scanMutex' = RunProc(i)
    /\ runs' = SetRun(i, [runs[i] EXCEPT !.pc = "test"])
    /\ UNCHANGED <<isScanning, lastScanTime, now, mainPc, cronFired, reqs, cfg, listening>>
    /\ UNCHANGED GuardOthers

\* main.go:89: if isScanning
guardBusyMut(scanning) == FALSE

guardBusy(scanning) == scanning

\* main.go:92: return; the deferred reset is registered only further down
skipExitPcMut == "deferLock"

skipExitPc == "skipped"

\* where main continues once the initial call of runScan has returned
MainAfter(i) == IF runs[i].kind = "initial" THEN "cron" ELSE mainPc

\* main.go:89-93: the guard is taken; unlock and return
RsSkip(i) ==
    /\ runs[i].pc = "test"
    /\ scanMutex = RunProc(i)
    /\ guardBusy(isScanning)
    /\ scanMutex' = NoProc
    /\ runs' = SetRun(i, [runs[i] EXCEPT !.pc = skipExitPc])
    /\ mainPc' = IF skipExitPc = "skipped" THEN MainAfter(i) ELSE mainPc
    /\ UNCHANGED <<isScanning, lastScanTime, now, cronFired, reqs, cfg, listening>>
    /\ UNCHANGED GuardOthers

\* main.go:94-102: take the guard, unlock, register the deferred reset
RsEnter(i) ==
    /\ runs[i].pc = "test"
    /\ scanMutex = RunProc(i)
    /\ ~guardBusy(isScanning)
    /\ isScanning' = TRUE
    /\ scanMutex' = NoProc
    /\ runs' = SetRun(i, [runs[i] EXCEPT !.pc = "begin"])
    /\ UNCHANGED <<lastScanTime, now, mainPc, cronFired, reqs, cfg, listening>>
    /\ UNCHANGED GuardOthers

\* main.go:97-98: every return from the scan body runs the deferred function
bodyExitPcMut(err) == IF err = "nil" THEN "deferLock" ELSE "done"

bodyExitPc(err) == "deferLock"

\* main.go:98: scanMutex.Lock() of the deferred function
RsDeferLock(i) ==
    /\ runs[i].pc = "deferLock"
    /\ scanMutex = NoProc
    /\ scanMutex' = RunProc(i)
    /\ runs' = SetRun(i, [runs[i] EXCEPT !.pc = "deferReset"])
    /\ UNCHANGED <<isScanning, lastScanTime, now, mainPc, cronFired, reqs, cfg, listening>>
    /\ UNCHANGED GuardOthers

\* a reset that leaves the timestamp as it was
completionTimeMut(last, clock) == last

\* main.go:100: lastScanTime = time.Now()
completionTime(last, clock) == clock

\* main.go:99-101: isScanning = false; lastScanTime = time.Now(); unlock; return
RsDeferReset(i) ==
    /\ runs[i].pc = "deferReset"
    /\ scanMutex = RunProc(i)
    /\ isScanning' = FALSE
    /\ lastScanTime' = completionTime(lastScanTime, now)
    /\ now' = now + 1
    /\ scanMutex' = NoProc
    /\ runs' = SetRun(i, [runs[i] EXCEPT !.pc = "done"])
    /\ mainPc' = MainAfter(i)
    /\ UNCHANGED <<cronFired, reqs, cfg, listening>>
    /\ UNCHANGED GuardOthers

(***************************************************************************)
(* The /trigger handler (main.go:185-212, 454-481), the cron scheduler     *)
(* (main.go:242-247).                                                      *)
(***************************************************************************)
Methods == {"POST", "GET"}

\* main.go:186-189: a request arrives; anything but POST is answered 405
TrArrive(method) ==
    /\ mainPc # "off"
    /\ Len(reqs) < MaxTriggers
    /\ reqs' = Append(reqs,
                 IF method = "POST"
                   THEN [method |-> method, pc |-> "lock", scanning |-> FALSE,
                         status |-> "", run |-> 0]
                   ELSE [method |-> method, pc |-> "done", scanning |-> FALSE,
                         status |-> "405", run |-> 0])
    /\ UNCHANGED <<scanMutex, isScanning, lastScanTime, now, mainPc, cronFired, runs,
                   cfg, listening>>
    /\ UNCHANGED GuardOthers

\* main.go:191: scanMutex.Lock()
TrLock(r) ==
    /\ reqs[r].pc = "lock"
    /\ scanMutex = NoProc
    /\ scanMutex' = ReqProc(r)
    /\ reqs' = [reqs EXCEPT ![r].pc = "read"]
    /\ UNCHANGED <<isScanning, lastScanTime, now, mainPc, cronFired, runs, cfg, listening>>
    /\ UNCHANGED GuardOthers

\* main.go:192-193: scanning := isScanning; scanMutex.Unlock()
TrRead(r) ==
    /\ reqs[r].pc = "read"
    /\ scanMutex = ReqProc(r)
    /\ scanMutex' = NoProc
    /\ reqs' = [reqs EXCEPT ![r].pc = "decide", ![r].scanning = isScanning]
    /\ UNCHANGED <<isScanning, lastScanTime, now, mainPc, cronFired, runs, cfg, listening>>
    /\ UNCHANGED GuardOthers

\* main.go:195-202: answer "already_running"
TrBusy(r) ==
    /\ reqs[r].pc = "decide"
    /\ reqs[r].scanning
    /\ reqs' = [reqs EXCEPT ![r].pc = "done", ![r].status = "already_running"]
    /\ UNCHANGED <<scanMutex, isScanning, lastScanTime, now, mainPc, cronFired, runs,
                   cfg, listening>>
    /\ UNCHANGED GuardOthers

\* main.go:204-211: go runScan(); answer "started"
TrStart(r) ==
    /\ reqs[r].pc = "decide"
    /\ ~reqs[r].scanning
    /\ runs' = Append(runs, NewRun("trigger", r))
    /\ reqs' = [reqs EXCEPT ![r].pc = "done", ![r].status = "started",
                            ![r].run = Len(runs) + 1]
    /\ UNCHANGED <<scanMutex, isScanning, lastScanTime, now, mainPc, cronFired, cfg, listening>>
    /\ UNCHANGED GuardOthers

\* main.go:243-247: the schedule fires; cron runs the job in a goroutine of its own
CronFire ==
    /\ mainPc = "cron"
    /\ cronFired < MaxCron
    /\ cronFired' = cronFired + 1
    /\ runs' = Append(runs, NewRun("cron", 0))
    /\ UNCHANGED <<scanMutex, isScanning, lastScanTime, now, mainPc, reqs, cfg, listening>>
    /\ UNCHANGED GuardOthers

\* pcs of the scan body, from taking the guard to the deferred function
ScanPcs ==
    {"begin", "tcpPorts", "callback", "submit", "zmapPorts", "zmapAll", "scanned", "hosts"}

\* main.go:105: the deadline of ctx passes while the body runs
CtxExpire(i) ==
    /\ runs[i].pc \in ScanPcs \ {"begin"}
    /\ ~runs[i].ctxDone
    /\ runs' = SetRun(i, [runs[i] EXCEPT !.ctxDone = TRUE])
    /\ UNCHANGED <<scanMutex, isScanning, lastScanTime, now, mainPc, cronFired, reqs,
                   cfg, listening>>
    /\ UNCHANGED GuardOthers

(***************************************************************************)
(* The scan body of runScan (main.go:104-181, 369-450) over the probe      *)
(* backends' port loops: TCPScanner.ScanPortsWithCallback and ScanAllPorts *)
(* (fingerprint.go:707-773), ZmapScanner.ScanPorts and ScanAllPorts        *)
(* (zmap.go:167-251).  One call of ScanPort is one step here; its inside   *)
(* is the subject of SpecScanPort.                                         *)
(***************************************************************************)
BodyFrame == <<scanMutex, isScanning, lastScanTime, now, mainPc, cronFired, reqs, cfg, listening>>

\* the batches without a last, shorter one
RECURSIVE AllBatchesFromMut(_)
AllBatchesFromMut(batchStart) ==
    IF batchStart + batchSize - 1 > totalPorts THEN <<>>
    ELSE BatchPorts(batchStart) \o AllBatchesFromMut(batchStart + batchSize)

\* the ports of scanNetworkAllPorts, batch after batch (zmap.go:224-233)
RECURSIVE AllBatchesFrom(_)
AllBatchesFrom(batchStart) ==
    IF batchStart > totalPorts THEN <<>>
    ELSE BatchPorts(batchStart) \o AllBatchesFrom(batchStart + batchSize)

\* a resolution without the built-in list
resolvePortsMut(ports) == ports

\* main.go:159-162, 379-382: ports := cfg.Ports, or CommonPorts() when empty
resolvePorts(ports) == IF Len(ports) = 0 THEN CommonPorts ELSE ports

\* main.go:104-179, 369-402: choose the backend call
RsBegin(i) ==
    /\ runs[i].pc = "begin"
    /\ runs' = SetRun(i,
         IF cfg.ScanAllPorts
           THEN IF cfg.useZmap
                  THEN [runs[i] EXCEPT !.pc = "zmapAll", !.net = 1, !.ports = AllBatchesFrom(1)]
                  ELSE [runs[i] EXCEPT !.pc = "tcpPorts", !.batchStart = 1, !.ports = BatchPorts(1)]
           ELSE [runs[i] EXCEPT !.pc = IF cfg.useZmap THEN "zmapPorts" ELSE "tcpPorts",
                                !.ports = resolvePorts(cfg.Ports)])
    /\ UNCHANGED BodyFrame
    /\ UNCHANGED GuardOthers

\* the targets whose dial to the port succeeds
TcpOpen(port) == {ip \in SeqRange(AllIPs) : <<ip, port>> \in listening}

\* submitResults is passed as callback only here (main.go:177)
HasCallback == cfg.version = "streaming" /\ ~cfg.ScanAllPorts /\ ~cfg.useZmap

\* A call of ScanPortsWithCallback returns (res, e).  Called by runScan, that
\* is the backend's answer; called by ScanAllPorts (fingerprint.go:763-770), a
\* batch with an error is dropped and the next batch starts.
TcpCallReturn(r, res, e) ==
    IF r.batchStart = 0
      THEN [r EXCEPT !.hostPorts = res, !.err = e, !.pc = "scanned",
                     !.ports = <<>>, !.results = <<>>]
      ELSE LET hp == IF e # "nil" THEN r.hostPorts ELSE r.hostPorts \o res
               next == r.batchStart + batchSize
           IN  IF next <= totalPorts
                 THEN [r EXCEPT !.hostPorts = hp, !.batchStart = next,
                                !.ports = BatchPorts(next), !.results = <<>>]
                 ELSE [r EXCEPT !.hostPorts = hp, !.err = "nil", !.pc = "scanned",
                                !.batchStart = next, !.ports = <<>>, !.results = <<>>]

\* fingerprint.go:711-715: ctx is done when the loop reaches the next port
RsTcpCtxDone(i) ==
    /\ runs[i].pc = "tcpPorts"
    /\ runs[i].ports # <<>>
    /\ runs[i].ctxDone
    /\ runs' = SetRun(i, TcpCallReturn(runs[i], runs[i].results, "ctx"))
    /\ UNCHANGED BodyFrame
    /\ UNCHANGED GuardOthers

\* fingerprint.go:718-733: ScanPort returns the open targets in the order the
\* dial goroutines appended them; the callback gets a non-empty list
RsTcpScanPort(i) ==
    /\ runs[i].pc = "tcpPorts"
    /\ runs[i].ports # <<>>
    /\ ~runs[i].ctxDone
    /\ \E order \in Orderings(TcpOpen(Head(runs[i].ports))) :
          LET port == Head(runs[i].ports)
              portResults == [k \in 1 .. Len(order) |-> <<order[k], port>>]
              called == HasCallback /\ Len(portResults) > 0
          IN  runs' = SetRun(i,
                [runs[i] EXCEPT !.ports = Tail(@),
                                !.results = @ \o portResults,
                                !.probed = @ \cup {<<0, port>>},
                                !.queue = IF called THEN portResults ELSE <<>>,
                                !.reported = IF called THEN @ \cup SeqRange(portResults) ELSE @,
                                !.pc = IF called THEN "callback" ELSE "tcpPorts"])
    /\ UNCHANGED BodyFrame
    /\ UNCHANGED GuardOthers

\* fingerprint.go:662-666, 718-722: ctx ends while ScanPort dispatches; ScanPort
\* returns ctx.Err() and the loop goes on to the next port
RsTcpScanPortExpires(i) ==
    /\ runs[i].pc = "tcpPorts"
    /\ runs[i].ports # <<>>
    /\ ~runs[i].ctxDone
    /\ runs' = SetRun(i, [runs[i] EXCEPT !.ports = Tail(@), !.ctxDone = TRUE,
                                         !.probed = @ \cup {<<0, Head(runs[i].ports)>>}])
    /\ UNCHANGED BodyFrame
    /\ UNCHANGED GuardOthers

\* fingerprint.go:736: return results, nil
RsTcpPortsEnd(i) ==
    /\ runs[i].pc = "tcpPorts"
    /\ runs[i].ports = <<>>
    /\ runs' = SetRun(i, TcpCallReturn(runs[i], runs[i].results, "nil"))
    /\ UNCHANGED BodyFrame
    /\ UNCHANGED GuardOthers

\* ZgrabFingerprinter.FingerprintHost (zgrab.go:224-239) on the first n of the
\* ports, then the ScanResultPort of each port (main.go:128-139, 423-437)
PortResults(ports, n) ==
    [k \in 1 .. Len(ports) |->
        [PortNumber |-> ports[k], Protocol |-> "tcp", State |-> "open",
         info |-> \E j \in 1 .. n : ports[j] = ports[k]]]

\* a loop that leaves the rest of the port's endpoints after a failed submission
afterSubmitMut(queue, ok) == IF ok THEN Tail(queue) ELSE <<>>

\* main.go:150-154: SubmitResults's error is logged; the range loop goes on to
\* the next result either way
afterSubmit(queue, ok) == Tail(queue)

\* a loop that takes the results from the end
rangeNextMut(queue) == queue[Len(queue)]

\* main.go:124: for _, r := range results: the results in order
rangeNext(queue) == Head(queue)

\* main.go:124-148: one iteration of the callback's loop, up to the call of
\* SubmitResults: fingerprint the endpoint (FingerprintHost returns nothing
\* when ctx is done) and build the ScanResults of one host with one port
RsCallback(i) ==
    /\ runs[i].pc = "callback"
    /\ LET e == rangeNext(runs[i].queue)
           n == IF runs[i].ctxDone THEN 0 ELSE 1
       IN  runs' = SetRun(i,
             [runs[i] EXCEPT
                !.fingerprinted = IF n = 1 THEN @ \cup {e} ELSE @,
                !.pending = [IPAddress |-> e[1], Ports |-> PortResults(<<e[2]>>, n)],
                !.pc = "submit"])
    /\ UNCHANGED BodyFrame
    /\ UNCHANGED GuardOthers

\* main.go:150-156: SubmitResults returns, with nil or an error; the next
\* result of the range, or the return of the callback
RsSubmit(i) ==
    /\ runs[i].pc = "submit"
    /\ \E ok \in BOOLEAN :
          runs' = SetRun(i,
            [runs[i] EXCEPT
               !.queue = afterSubmit(@, ok),
               !.submitted = Append(@, [IPAddress |-> runs[i].pending.IPAddress,
                                        Ports |-> runs[i].pending.Ports,
                                        ok |-> ok]),
               !.pending = NoHost,
               !.pc = IF afterSubmit(runs[i].queue, ok) = <<>> THEN "tcpPorts"
                      ELSE "callback"])
    /\ UNCHANGED BodyFrame
    /\ UNCHANGED GuardOthers

\* ZmapScanner.ScanPort (zmap.go:46-59): the networks in order; a network whose
\* zmap run failed is skipped
RECURSIVE ZmapPortResults(_, _, _)
ZmapPortResults(port, okNets, k) ==
    IF k > Len(Networks) THEN <<>>
    ELSE (IF k \in okNets /\ <<NetworkHost(Networks[k]), port>> \in listening
            THEN << <<NetworkHost(Networks[k]), port>> >> ELSE <<>>)
         \o ZmapPortResults(port, okNets, k + 1)

\* zmap.go:171-175: ctx is done when ScanPorts reaches the next port
RsZmapCtxDone(i) ==
    /\ runs[i].pc = "zmapPorts"
    /\ runs[i].ports # <<>>
    /\ runs[i].ctxDone
    /\ runs' = SetRun(i, [runs[i] EXCEPT !.hostPorts = @ \o runs[i].results, !.err = "ctx",
                                         !.pc = "scanned", !.ports = <<>>, !.results = <<>>])
    /\ UNCHANGED BodyFrame
    /\ UNCHANGED GuardOthers

\* zmap.go:177-189: ScanPort on the next port
RsZmapScanPort(i) ==
    /\ runs[i].pc = "zmapPorts"
    /\ runs[i].ports # <<>>
    /\ ~runs[i].ctxDone
    /\ \E okNets \in SUBSET (1 .. Len(Networks)) :
          LET port == Head(runs[i].ports)
          IN  runs' = SetRun(i,
                [runs[i] EXCEPT
                   !.ports = Tail(@),
                   !.probed = @ \cup {<<k, port>> : k \in 1 .. Len(Networks)},
                   !.failed = @ \cup {<<k, port>> : k \in
                                  {n \in 1 .. Len(Networks) :
                                      /\ n \notin okNets
                                      /\ <<NetworkHost(Networks[n]), port>> \in listening}},
                   !.results = @ \o ZmapPortResults(port, okNets, 1)])
    /\ UNCHANGED BodyFrame
    /\ UNCHANGED GuardOthers

\* zmap.go:192: return results, nil
RsZmapPortsEnd(i) ==
    /\ runs[i].pc = "zmapPorts"
    /\ runs[i].ports = <<>>
    /\ runs' = SetRun(i, [runs[i] EXCEPT !.hostPorts = @ \o runs[i].results, !.err = "nil",
                                         !.pc = "scanned", !.results = <<>>])
    /\ UNCHANGED BodyFrame
    /\ UNCHANGED GuardOthers

\* ZmapScanner.ScanAllPorts (zmap.go:198-212): scanNetworkAllPorts returned for
\* the network r.net, leaving hp as the merged results; on to the next network
ZmapAllNext(r, hp) ==
    IF r.net < Len(Networks)
      THEN [r EXCEPT !.hostPorts = hp, !.net = @ + 1, !.ports = AllBatchesFrom(1),
                     !.results = <<>>]
      ELSE [r EXCEPT !.hostPorts = hp, !.err = "nil", !.pc = "scanned",
                     !.ports = <<>>, !.results = <<>>]

\* zmap.go:235-239, 201-205: ctx is done at the next port; scanNetworkAllPorts
\* returns ctx.Err() and ScanAllPorts skips the network
RsZmapAllCtxDone(i) ==
    /\ runs[i].pc = "zmapAll"
    /\ runs[i].ports # <<>>
    /\ runs[i].ctxDone
    /\ runs' = SetRun(i, ZmapAllNext(runs[i], runs[i].hostPorts))
    /\ UNCHANGED BodyFrame
    /\ UNCHANGED GuardOthers

\* zmap.go:241-248: scanNetworkPort on the next port of the network
RsZmapAllPort(i) ==
    /\ runs[i].pc = "zmapAll"
    /\ runs[i].ports # <<>>
    /\ ~runs[i].ctxDone
    /\ \E ok \in BOOLEAN :
          LET port == Head(runs[i].ports)
              e == <<NetworkHost(Networks[runs[i].net]), port>>
          IN  runs' = SetRun(i,
                [runs[i] EXCEPT !.ports = Tail(@),
                                !.probed = @ \cup {<<runs[i].net, port>>},
                                !.failed = IF ~ok /\ e \in listening
                                             THEN @ \cup {<<runs[i].net, port>>} ELSE @,
                                !.results = IF ok /\ e \in listening THEN Append(@, e) ELSE @])
    /\ UNCHANGED BodyFrame
    /\ UNCHANGED GuardOthers

\* zmap.go:251, 207-209: the network is done; merge its results
RsZmapAllNetEnd(i) ==
    /\ runs[i].pc = "zmapAll"
    /\ runs[i].ports = <<>>
    /\ runs' = SetRun(i, ZmapAllNext(runs[i], runs[i].hostPorts \o runs[i].results))
    /\ UNCHANGED BodyFrame
    /\ UNCHANGED GuardOthers

\* the hosts of hostPorts, and the open ports of one of them in order
HostsOf(hostPorts) == {hostPorts[k][1] : k \in 1 .. Len(hostPorts)}

RECURSIVE OpenPortsOf(_, _)
OpenPortsOf(hostPorts, ip) ==
    IF hostPorts = <<>> THEN <<>>
    ELSE (IF Head(hostPorts)[1] = ip THEN <<Head(hostPorts)[2]>> ELSE <<>>)
         \o OpenPortsOf(Tail(hostPorts), ip)

\* The backend call has returned to runScan.  main.go:167-181 drops what it
\* returned and ends the run; main.go:404-412 returns on an error and goes on
\* to the hosts otherwise.
RsScanned(i) ==
    /\ runs[i].pc = "scanned"
    /\ LET r == runs[i]
           seen == r.reported \cup SeqRange(r.hostPorts)
       IN  runs' = SetRun(i,
             IF cfg.version = "streaming"
               THEN [r EXCEPT !.reported = seen, !.pc = bodyExitPc("nil")]
             ELSE IF r.err # "nil"
               THEN [r EXCEPT !.reported = seen, !.pc = bodyExitPc(r.err)]
             ELSE IF HostsOf(r.hostPorts) = {}
               THEN [r EXCEPT !.reported = seen, !.pc = bodyExitPc("nil")]
             ELSE [r EXCEPT !.reported = seen, !.hostsLeft = HostsOf(r.hostPorts),
                            !.pc = "hosts"])
    /\ UNCHANGED BodyFrame
    /\ UNCHANGED GuardOthers

\* main.go:412-448: one host of the map, in the map's order: FingerprintHost
\* stops at the first port it reaches with ctx done; one ScanResults holds all
\* the host's ports
RsBatchHost(i) ==
    /\ runs[i].pc = "hosts"
    /\ \E ip \in runs[i].hostsLeft, ok \in BOOLEAN :
          LET openPorts == OpenPortsOf(runs[i].hostPorts, ip)
          IN  \E n \in 0 .. Len(openPorts) :
                /\ runs[i].ctxDone => n = 0
                /\ ~runs[i].ctxDone => n > 0
                /\ runs' = SetRun(i,
                     [runs[i] EXCEPT
                        !.ctxDone = @ \/ n < Len(openPorts),
                        !.fingerprinted = @ \cup {<<ip, openPorts[k]>> : k \in 1 .. n},
                        !.submitted = Append(@, [IPAddress |-> ip,
                                                 Ports |-> PortResults(openPorts, n),
                                                 ok |-> ok]),
                        !.hostsLeft = @ \ {ip},
                        !.pc = IF runs[i].hostsLeft = {ip} THEN bodyExitPc("nil")
                               ELSE "hosts"])
    /\ UNCHANGED BodyFrame
    /\ UNCHANGED GuardOthers

(***************************************************************************)
(* sanitizeBanner driven on its own (fingerprint.go:476-497): applied to   *)
(* an input, then to its own output.                                       *)
(***************************************************************************)
MaxPad == 3

\* n copies of the rune r
Rep(r, n) == [i \in 1 .. n |-> r]

\* What may stand before and after the body of an input: nothing, spaces,
\* the whitespace the filter turns into spaces, runes the filter drops
\* (NUL, DEL, U+00E9) and runes it keeps.
SanitizeEdges ==
    {<<>>, <<0>>, <<10>>, <<127>>, <<233>>, <<97>>, <<0, 9>>, <<0, 97>>}
        \cup {<<0>> \o Rep(32, k) : k \in 1 .. MaxPad}
        \cup {Rep(32, k) : k \in 1 .. MaxPad}

\* lengths of the body: short ones, and those around the truncation limit
SanitizeBodyLens ==
    (0 .. MaxPad) \cup ((BannerLimit - MaxPad - 1) .. (BannerLimit + MaxPad + 1))

SanitizeInputs ==
    {pre \o Rep(98, n) \o post :
        pre \in SanitizeEdges, n \in SanitizeBodyLens, post \in SanitizeEdges}

SanitizeOff ==
    /\ sanIn = <<>>
    /\ sanPc = "off"
    /\ sanOut = <<>>
    /\ sanAgain = <<>>

SanitizeInit ==
    /\ sanIn \in SanitizeInputs
    /\ sanPc = "call"
    /\ sanOut = <<>>
    /\ sanAgain = <<>>

\* sanitizeBanner(s)
SanitizeCall ==
    /\ sanPc = "call"
    /\ sanOut' = sanitizeBanner(sanIn)
    /\ sanPc' = "once"
    /\ UNCHANGED <<sanIn, sanAgain>>
    /\ UNCHANGED SanitizeOthers

\* sanitizeBanner applied to the banner it returned
SanitizeRecall ==
    /\ sanPc = "once"
    /\ sanAgain' = sanitizeBanner(sanOut)
    /\ sanPc' = "twice"
    /\ UNCHANGED <<sanIn, sanOut>>
    /\ UNCHANGED SanitizeOthers

(***************************************************************************)
(* The delegated fingerprinter (zgrab.go): zgrab2 is run for one (ip,      *)
(* port), its JSON output parsed, and the native prober used when the run  *)
(* fails.                                                                  *)
(***************************************************************************)
\* getZgrabModule (zgrab.go:192-221)
getZgrabModule(port) ==
    CASE port = 21 -> "ftp"
      [] port = 22 -> "ssh"
      [] port = 23 -> "telnet"
      [] port \in {25, 465, 587} -> "smtp"
      [] port \in {80, 8080, 8000, 8888} -> "http"
      [] port \in {110, 995} -> "pop3"
      [] port \in {143, 993} -> "imap"
      [] port \in {443, 8443} -> "http"
      [] port = 3306 -> "mysql"
      [] port = 5432 -> "postgres"
      [] port = 6379 -> "redis"
      [] port = 27017 -> "mongodb"
      [] OTHER -> "banner"

\* strings.Split(s, "\n")
RECURSIVE SplitLines(_)
SplitLines(s) ==
    LET nl == IndexFrom(s, <<10>>, 1)
    IN  IF nl = 0 THEN <<s>>
        ELSE <<SubSeq(s, 1, nl - 1)>> \o SplitLines(SubSeq(s, nl + 1, Len(s)))

\* extractTitle (zgrab.go:588-601)
extractTitle(html) ==
    LET lower == ToLower(html)
        start == IndexFrom(lower, Txt.titleOpen, 1)
    IN  IF start = 0 THEN <<>>
        ELSE LET from == start + Len(Txt.titleOpen)
                 end == IndexFrom(lower, Txt.titleClose, from)
             IN  IF end = 0 THEN <<>>
                 ELSE TrimSpace(SubSeq(html, from, end - 1))

\* parseEHLOCapabilities (zgrab.go:603-616): the capability of each line
\* "250-CAP" or "250 CAP", in order
RECURSIVE capsOfLines(_)
capsOfLines(lines) ==
    IF lines = <<>> THEN <<>>
    ELSE LET line == TrimSpace(Head(lines))
             cap == TrimSpace(SubSeq(line, 5, Len(line)))
             keep == /\ Len(line) > 4
                     /\ line[4] \in {45, 32}
                     /\ cap # <<>>
                     /\ ~HasPrefix(ToLower(cap), Txt.code250)
         IN  (IF keep THEN <<cap>> ELSE <<>>) \o capsOfLines(Tail(lines))

parseEHLOCapabilities(ehlo) == capsOfLines(SplitLines(ehlo))

\* extractRedisVersion (zgrab.go:618-626): the rest of the first line that
\* starts with "redis_version:"
RECURSIVE redisVersionOfLines(_)
redisVersionOfLines(lines) ==
    IF lines = <<>> THEN <<>>
    ELSE IF HasPrefix(Head(lines), Txt.redisVersion)
      THEN SubSeq(Head(lines), Len(Txt.redisVersion) + 1, Len(Head(lines)))
      ELSE redisVersionOfLines(Tail(lines))

extractRedisVersion(info) == redisVersionOfLines(SplitLines(info))

\* extractTLSInfo (zgrab.go:531-584).  tls is "nil" (no TLS log or no
\* handshake log), "bare" (a handshake log with neither a server hello nor a
\* certificate, so tlsInfo stays empty) or "hello" (a server hello).
extractTLSInfo(info, tls) ==
    IF tls = "hello"
      THEN [info EXCEPT !.Fingerprint = MapPut(@, "tls", "version, cipher_suite")]
      ELSE info

\* A module result as json.Unmarshal decodes it into the module's struct
\* (zgrab.go:62-189): every field absent from the JSON has its zero value.
ZeroResult ==
    [ Response |-> FALSE, StatusCode |-> 0, StatusLine |-> <<>>,
      Headers |-> "nil", Server |-> <<>>, Body |-> <<>>,
      Banner |-> <<>>, EHLO |-> <<>>, StartTLS |-> <<>>, AuthTLS |-> <<>>, TLS |-> "nil",
      ServerID |-> FALSE, Raw |-> <<>>, SoftwareVersion |-> <<>>, Version |-> <<>>,
      AlgorithmSelection |-> FALSE,
      ServerVersion |-> <<>>, ProtocolVersion |-> 0, AuthPluginName |-> <<>>,
      IsSSL |-> FALSE, SupportedVersions |-> <<>>,
      AuthRequired |-> FALSE, Info |-> <<>> ]

PutIf(cond, m, k, v) == IF cond THEN MapPut(m, k, v) ELSE m

\* the banner and version of the smtp, ftp, imap and pop3 cases
\* (zgrab.go:375-378, 396-399, 466-469, 480-483)
withZgrabBanner(info, banner) ==
    IF banner # <<>>
      THEN [info EXCEPT !.Banner = sanitizeBanner(banner),
                        !.ServiceVersion = extractVersion(banner)]
      ELSE info

\* the switch of parseZgrabResult (zgrab.go:343-528) for a result that decoded
parseModuleResult(info, module, port, r) ==
    LET fp == info.Fingerprint
    IN  CASE module = "http" ->
               IF ~r.Response THEN info
               ELSE [ServiceName |-> IF port \in {443, 8443} THEN "https" ELSE "http",
                     Banner |-> r.StatusLine,
                     ServiceVersion |-> IF r.Headers = "server" THEN r.Server ELSE <<>>,
                     Fingerprint |->
                        PutIf(r.Body # <<>> /\ extractTitle(r.Body) # <<>>,
                          PutIf(r.Headers # "nil",
                            PutIf(r.StatusCode > 0, fp, "status_code", r.StatusCode),
                            "headers", r.Headers),
                          "title", extractTitle(r.Body))]
          [] module = "smtp" ->
               LET named == [info EXCEPT
                     !.ServiceName = "smtp",
                     !.Fingerprint =
                        PutIf(r.StartTLS # <<>>,
                          PutIf(r.EHLO # <<>> /\ parseEHLOCapabilities(r.EHLO) # <<>>,
                            PutIf(r.EHLO # <<>>, fp, "ehlo", r.EHLO),
                            "capabilities", parseEHLOCapabilities(r.EHLO)),
                          "starttls", TRUE)]
               IN  extractTLSInfo(withZgrabBanner(named, r.Banner), r.TLS)
          [] module = "ftp" ->
               LET named == [info EXCEPT
                     !.ServiceName = "ftp",
                     !.Fingerprint = PutIf(r.AuthTLS # <<>>, fp, "auth_tls", TRUE)]
               IN  extractTLSInfo(withZgrabBanner(named, r.Banner), r.TLS)
          [] module = "ssh" ->
               [ServiceName |-> "ssh",
                Banner |-> IF r.ServerID /\ r.Raw # <<>> THEN sanitizeBanner(r.Raw) ELSE <<>>,
                ServiceVersion |-> IF r.ServerID THEN r.SoftwareVersion ELSE <<>>,
                Fingerprint |->
                   PutIf(r.AlgorithmSelection,
                     PutIf(r.ServerID /\ r.Version # <<>>, fp, "protocol_version", r.Version),
                     "algorithms", TRUE)]
          [] module = "mysql" ->
               extractTLSInfo(
                 [ServiceName |-> "mysql",
                  Banner |-> IF r.ServerVersion # <<>> THEN Txt.MySQLsp \o r.ServerVersion
                             ELSE <<>>,
                  ServiceVersion |-> r.ServerVersion,
                  Fingerprint |->
                     PutIf(r.AuthPluginName # <<>>,
                       PutIf(r.ProtocolVersion > 0, fp, "protocol_version", r.ProtocolVersion),
                       "auth_plugin", r.AuthPluginName)],
                 r.TLS)
          [] module = "postgres" ->
               extractTLSInfo(
                 [info EXCEPT
                    !.ServiceName = "postgresql",
                    !.Banner = IF r.IsSSL THEN Txt.PgSSL ELSE Txt.PostgreSQL,
                    !.Fingerprint =
                       PutIf(r.SupportedVersions # <<>>,
                         PutIf(r.IsSSL, fp, "ssl_supported", TRUE),
                         "supported_versions", r.SupportedVersions)],
                 r.TLS)
          [] module = "redis" ->
               [info EXCEPT
                  !.ServiceName = "redis",
                  !.Banner = IF r.AuthRequired THEN Txt.RedisAuthRequired ELSE Txt.Redis,
                  !.ServiceVersion = IF r.Info # <<>> THEN extractRedisVersion(r.Info)
                                     ELSE <<>>,
                  !.Fingerprint = PutIf(r.AuthRequired, fp, "auth_required", TRUE)]
          [] module = "imap" ->
               LET named == [info EXCEPT
                     !.ServiceName = "imap",
                     !.Fingerprint = PutIf(r.StartTLS # <<>>, fp, "starttls", TRUE)]
               IN  extractTLSInfo(withZgrabBanner(named, r.Banner), r.TLS)
          [] module = "pop3" ->
               LET named == [info EXCEPT
                     !.ServiceName = "pop3",
                     !.Fingerprint = PutIf(r.StartTLS # <<>>, fp, "starttls", TRUE)]
               IN  extractTLSInfo(withZgrabBanner(named, r.Banner), r.TLS)
          [] module = "telnet" ->
               [info EXCEPT
                  !.ServiceName = "telnet",
                  !.Banner = IF r.Banner # <<>> THEN sanitizeBanner(r.Banner) ELSE <<>>]
          [] module = "banner" ->
               IF r.Banner # <<>>
                 THEN [info EXCEPT !.Banner = sanitizeBanner(r.Banner),
                                   !.ServiceName = guessServiceFromBanner(r.Banner)]
                 ELSE info
          [] OTHER -> info

\* parseZgrabResult (zgrab.go:329-529).  entry is result.Data[module]:
\* whether the key is there, the module's status, and whether its result
\* decodes into the module's struct.
parseZgrabResult(entry, module, port) ==
    LET info == [EmptyInfo EXCEPT !.Fingerprint = EmptyMap]
    IN  IF ~entry.present \/ entry.Status # "success" THEN info
        ELSE LET tagged == [info EXCEPT !.Fingerprint =
                               MapPut(MapPut(@, "zgrab_status", entry.Status),
                                      "protocol", module)]
             IN  IF entry.decodes
                   THEN parseModuleResult(tagged, module, port, entry.Result)
                   ELSE tagged

\* result.Data[module] as the process wrote it
ModuleEntry(present, null, status, decodes, result) ==
    [present |-> present, null |-> null, Status |-> status, decodes |-> decodes,
     Result |-> result]

\* a result with every field of every module's struct set
FullResult ==
    [ Response |-> TRUE, StatusCode |-> 200, StatusLine |-> SubSeq(Peer.HTTP.data, 1, 15),
      Headers |-> "server", Server |-> SubSeq(Peer.HTTP.data, 26, 37),
      Body |-> Peer.HTTP.data,
      Banner |-> Peer.FTP.data, EHLO |-> Peer.Redis.data2, StartTLS |-> Txt.code220,
      AuthTLS |-> Txt.code220, TLS |-> "hello",
      ServerID |-> TRUE, Raw |-> Peer.SSH.data, SoftwareVersion |-> SubSeq(Peer.SSH.data, 9, 19),
      Version |-> SubSeq(Peer.SSH.data, 5, 7), AlgorithmSelection |-> TRUE,
      ServerVersion |-> SubSeq(Peer.MySQL.data, 6, 11), ProtocolVersion |-> 10,
      AuthPluginName |-> Txt.mysql,
      IsSSL |-> TRUE, SupportedVersions |-> Txt.dots,
      AuthRequired |-> TRUE, Info |-> Peer.Redis.data2 ]

\* What the zgrab2 process can do for one (ip, port): fail to start, exit
\* non-zero, be killed at the timeout, or exit 0 having written output that
\* is not JSON, or JSON whose data has no entry for the module, a null entry,
\* an entry with a failure status, or a successful entry whose result may or
\* may not decode.
ZgrabOutputs ==
    LET none == ModuleEntry(FALSE, FALSE, "", FALSE, ZeroResult)
    IN  {[run |-> r, json |-> FALSE, entry |-> none] :
            r \in {"startError", "exitError", "timeout", "ok"}}
        \cup
        {[run |-> "ok", json |-> TRUE, entry |-> e] :
            e \in {none,
                   ModuleEntry(TRUE, TRUE, "", FALSE, ZeroResult),
                   ModuleEntry(TRUE, FALSE, "connection-timeout", FALSE, ZeroResult),
                   ModuleEntry(TRUE, FALSE, "success", FALSE, ZeroResult),
                   ModuleEntry(TRUE, FALSE, "success", TRUE, ZeroResult),
                   ModuleEntry(TRUE, FALSE, "success", TRUE, FullResult),
                   ModuleEntry(TRUE, FALSE, "success", TRUE,
                               [ZeroResult EXCEPT !.Banner = Peer.Ctrl.data,
                                                  !.Response = TRUE, !.Headers = "none",
                                                  !.TLS = "bare", !.ServerID = TRUE])}}

\* runZgrab (zgrab.go:304-327) returns an error when cmd.Run fails and when
\* the output does not unmarshal into a ZgrabResult
runZgrabErrMut(out) == out.run # "ok"

runZgrabErr(out) == out.run # "ok" \/ ~out.json

ZgrabOff ==
    /\ zgPort = 0
    /\ zgPeer = Peer.Down
    /\ zgOut = [run |-> "ok", json |-> FALSE,
                entry |-> ModuleEntry(FALSE, FALSE, "", FALSE, ZeroResult)]
    /\ zgPc = "off"
    /\ zgInfo = EmptyInfo
    /\ zgCalls = <<>>

ZgrabInit ==
    /\ zgPort \in FingerprintPorts
    /\ zgPeer \in Peers
    /\ zgOut \in ZgrabOutputs
    /\ zgPc = "run"
    /\ zgInfo = EmptyInfo
    /\ zgCalls = <<>>

\* zgrab.go:242-291: the command is built and runZgrab called
ZgRun ==
    /\ zgPc = "run"
    /\ zgCalls' = Append(zgCalls, "runZgrab")
    /\ zgPc' = IF runZgrabErr(zgOut) THEN "fallback" ELSE "parse"
    /\ UNCHANGED <<zgPort, zgPeer, zgOut, zgInfo>>
    /\ UNCHANGED ZgrabOthers

\* zgrab.go:288-291: return z.Fallback.fingerprintPort(ctx, ip, port)
ZgFallback ==
    /\ zgPc = "fallback"
    /\ zgCalls' = Append(zgCalls, "Fallback.fingerprintPort")
    /\ zgInfo' = fingerprintPort(zgPort, zgPeer)
    /\ zgPc' = "returned"
    /\ UNCHANGED <<zgPort, zgPeer, zgOut>>
    /\ UNCHANGED ZgrabOthers

\* zgrab.go:294: parseZgrabResult; a null entry is a nil *ZgrabModule whose
\* Status is read at zgrab.go:336
ZgParse ==
    /\ zgPc = "parse"
    /\ zgCalls' = Append(zgCalls, "parseZgrabResult")
    /\ IF zgOut.entry.present /\ zgOut.entry.null
         THEN zgPc' = "panicked" /\ UNCHANGED zgInfo
         ELSE /\ zgInfo' = parseZgrabResult(zgOut.entry, getZgrabModule(zgPort), zgPort)
              /\ zgPc' = "name"
    /\ UNCHANGED <<zgPort, zgPeer, zgOut>>
    /\ UNCHANGED ZgrabOthers

\* zgrab.go:296-301: the default name when the parse set none
ZgName ==
    /\ zgPc = "name"
    /\ zgInfo' = withDefaultName(zgInfo, zgPort)
    /\ zgPc' = "returned"
    /\ UNCHANGED <<zgPort, zgPeer, zgOut, zgCalls>>
    /\ UNCHANGED ZgrabOthers

(***************************************************************************)
(* The delegated probe backend's unit of work, ZmapScanner.scanNetworkPort *)
(* (zmap.go:62-164): two temporary files, one zmap process, its CSV output. *)
(***************************************************************************)
MaxRows == 3

\* A record of the CSV output as csv.Reader.Read returns it: whether it came
\* with a parse error, and its first field.  The fields here: 'saddr', '7',
\* ' 8 ' and ''.  A record with a parse error may be empty (a bare quote) or
\* complete (a field count other than the first record's).
CsvRows ==
    {[err |-> TRUE, first |-> f] : f \in {<<>>, <<55>>}}
        \cup {[err |-> FALSE, first |-> f] :
                 f \in {<<115, 97, 100, 100, 114>>, <<55>>, <<32, 56, 32>>, <<>>}}

\* zmap.go:124-144: the first record is skipped, then every record that
\* parsed and has a non-empty first field gives one result
\* a loop that leaves at the first record with a parse error
RECURSIVE rowResultsMut(_, _)
rowResultsMut(rows, port) ==
    IF rows = <<>> \/ Head(rows).err THEN <<>>
    ELSE (IF Head(rows).first # <<>>
            THEN <<[IP |-> TrimSpace(Head(rows).first), Port |-> port]>>
            ELSE <<>>) \o rowResultsMut(Tail(rows), port)

RECURSIVE rowResults(_, _)
rowResults(rows, port) ==
    IF rows = <<>> THEN <<>>
    ELSE (IF ~Head(rows).err /\ Head(rows).first # <<>>
            THEN <<[IP |-> TrimSpace(Head(rows).first), Port |-> port]>>
            ELSE <<>>) \o rowResults(Tail(rows), port)

readResults(rows, port) == IF rows = <<>> THEN <<>> ELSE rowResults(Tail(rows), port)

ZmapProcs ==
    [rows : SeqsUpTo(CsvRows, MaxRows), exit : {0, 1}, stderr : {"", "text"}]

\* defer os.Remove(file.Name()) (zmap.go:68, 81)
deferRemoveMut(defers, file) == defers

deferRemove(defers, file) == <<file>> \o defers

\* zmap.go:158: a failed cmd.Wait is an error only if nothing was parsed
\* and the process wrote to stderr
zmapFailedMut(results, stderrStr) == stderrStr # ""

zmapFailed(results, stderrStr) == Len(results) = 0 /\ stderrStr # ""

NoZmapRet == [results |-> <<>>, err |-> "none"]

ZmapNetOff ==
    /\ znPort = 0
    /\ znProc = [rows |-> <<>>, exit |-> 0, stderr |-> ""]
    /\ znPc = "off"
    /\ znFiles = {}
    /\ znCreated = {}
    /\ znDefers = <<>>
    /\ znCtxDone = FALSE
    /\ znKilled = FALSE
    /\ znResults = <<>>
    /\ znRet = NoZmapRet

ZmapNetInit ==
    /\ znPort \in ProbePorts
    /\ znProc \in ZmapProcs
    /\ znPc = "whitelist"
    /\ znFiles = {}
    /\ znCreated = {}
    /\ znDefers = <<>>
    /\ znCtxDone \in BOOLEAN
    /\ znKilled = FALSE
    /\ znResults = <<>>
    /\ znRet = NoZmapRet

\* a return statement: the deferred calls run next
ZnReturn(results, err) ==
    /\ znRet' = [results |-> results, err |-> err]
    /\ znPc' = "defers"

\* The context is cancelled, or its deadline passes, while the call runs.
\* exec.CommandContext (zmap.go:102) kills a process that was started and is
\* still running; it may have exited on its own before.
ZnCancel ==
    /\ znPc \notin {"off", "returned"}
    /\ ~znCtxDone
    /\ znCtxDone' = TRUE
    /\ znKilled' \in IF znPc \in {"read", "wait"} THEN BOOLEAN ELSE {FALSE}
    /\ UNCHANGED <<znPort, znProc, znPc, znFiles, znCreated, znDefers, znResults, znRet>>
    /\ UNCHANGED ZmapNetOthers

\* zmap.go:64-68: os.CreateTemp of the allow-list and its deferred removal
ZnCreateWhitelist ==
    /\ znPc = "whitelist"
    /\ \E ok \in BOOLEAN :
          IF ok
            THEN /\ znFiles' = znFiles \cup {"whitelist"}
                 /\ znCreated' = znCreated \cup {"whitelist"}
                 /\ znDefers' = deferRemove(znDefers, "whitelist")
                 /\ znPc' = "write"
                 /\ UNCHANGED znRet
            ELSE /\ ZnReturn(<<>>, "failed to create whitelist file")
                 /\ UNCHANGED <<znFiles, znCreated, znDefers>>
    /\ UNCHANGED <<znPort, znProc, znCtxDone, znKilled, znResults>>
    /\ UNCHANGED ZmapNetOthers

\* zmap.go:70-74: the range is written to the allow-list
ZnWriteWhitelist ==
    /\ znPc = "write"
    /\ \E ok \in BOOLEAN :
          IF ok THEN znPc' = "blacklist" /\ UNCHANGED znRet
          ELSE ZnReturn(<<>>, "failed to write whitelist")
    /\ UNCHANGED <<znPort, znProc, znFiles, znCreated, znDefers, znCtxDone, znKilled, znResults>>
    /\ UNCHANGED ZmapNetOthers

\* zmap.go:77-82: os.CreateTemp of the deny-list and its deferred removal
ZnCreateBlacklist ==
    /\ znPc = "blacklist"
    /\ \E ok \in BOOLEAN :
          IF ok
            THEN /\ znFiles' = znFiles \cup {"blacklist"}
                 /\ znCreated' = znCreated \cup {"blacklist"}
                 /\ znDefers' = deferRemove(znDefers, "blacklist")
                 /\ znPc' = "pipes"
                 /\ UNCHANGED znRet
            ELSE /\ ZnReturn(<<>>, "failed to create blacklist file")
                 /\ UNCHANGED <<znFiles, znCreated, znDefers>>
    /\ UNCHANGED <<znPort, znProc, znCtxDone, znKilled, znResults>>
    /\ UNCHANGED ZmapNetOthers

\* zmap.go:102-112: exec.CommandContext, cmd.StdoutPipe, cmd.StderrPipe
ZnPipes ==
    /\ znPc = "pipes"
    /\ \E err \in {"nil", "failed to get stdout pipe", "failed to get stderr pipe"} :
          IF err = "nil" THEN znPc' = "start" /\ UNCHANGED znRet
          ELSE ZnReturn(<<>>, err)
    /\ UNCHANGED <<znPort, znProc, znFiles, znCreated, znDefers, znCtxDone, znKilled, znResults>>
    /\ UNCHANGED ZmapNetOthers

\* a Start that does not look at the context
startOutcomesMut(done) == BOOLEAN

\* zmap.go:102, 116: Start of a command made by exec.CommandContext fails
\* when the context is already done, and may fail otherwise (zmap not
\* installed)
startOutcomes(done) == IF done THEN {FALSE} ELSE BOOLEAN

\* zmap.go:116-118: cmd.Start
ZnStart ==
    /\ znPc = "start"
    /\ \E ok \in startOutcomes(znCtxDone) :
          IF ok THEN znPc' = "read" /\ UNCHANGED znRet
          ELSE ZnReturn(<<>>, "failed to start zmap")
    /\ UNCHANGED <<znPort, znProc, znFiles, znCreated, znDefers, znCtxDone, znKilled, znResults>>
    /\ UNCHANGED ZmapNetOthers

\* zmap.go:120-148: the output is read to its end; a process killed at the
\* cancellation has written some prefix of its rows
ZnRead ==
    /\ znPc = "read"
    /\ \E n \in 0 .. Len(znProc.rows) :
          /\ ~znKilled => n = Len(znProc.rows)
          /\ znResults' = readResults(SubSeq(znProc.rows, 1, n), znPort)
    /\ znPc' = "wait"
    /\ UNCHANGED <<znPort, znProc, znFiles, znCreated, znDefers, znCtxDone, znKilled, znRet>>
    /\ UNCHANGED ZmapNetOthers

\* zmap.go:150-163: cmd.Wait.  It fails on a non-zero exit and for a process
\* that was killed.
ZnWait ==
    /\ znPc = "wait"
    /\ LET waitErr == znProc.exit # 0 \/ znKilled IN
          IF ~waitErr THEN ZnReturn(znResults, "nil")
          ELSE IF znCtxDone THEN ZnReturn(znResults, "ctx")
          ELSE IF zmapFailed(znResults, znProc.stderr)
            THEN ZnReturn(<<>>, "zmap failed")
          ELSE ZnReturn(znResults, "nil")
    /\ UNCHANGED <<znPort, znProc, znFiles, znCreated, znDefers, znCtxDone, znKilled, znResults>>
    /\ UNCHANGED ZmapNetOthers

\* a deferred os.Remove runs
ZnDeferred ==
    /\ znPc = "defers"
    /\ znDefers # <<>>
    /\ znFiles' = znFiles \ {Head(znDefers)}
    /\ znDefers' = Tail(znDefers)
    /\ UNCHANGED <<znPort, znProc, znPc, znCreated, znCtxDone, znKilled, znResults, znRet>>
    /\ UNCHANGED ZmapNetOthers

\* the call returns to its caller
ZnReturned ==
    /\ znPc = "defers"
    /\ znDefers = <<>>
    /\ znPc' = "returned"
    /\ UNCHANGED <<znPort, znProc, znFiles, znCreated, znDefers, znCtxDone, znKilled, znResults, znRet>>
    /\ UNCHANGED ZmapNetOthers

(***************************************************************************)
(* TCPScanner.ScanPortsWithCallback (fingerprint.go:707-737): the range    *)
(* loop over the ports, each entry a call of ScanPort with its goroutines  *)
(* (the Sp steps above), then the callback.                                *)
(***************************************************************************)
CallbackPortLists == {<<>>, <<22>>, <<22, 80>>, <<22, 22>>}
CallbackNetworks ==
    {n \in NetworkConfigs : Len(n) = 1 \/ Len(collectIPs(n, 1)) = 1}
CallbackRates == {1, 2}

NoCbRet == [results |-> <<>>, err |-> "none"]

CallbackOff ==
    /\ cbPorts = <<>>
    /\ cbCallback = FALSE
    /\ cbIdx = 1
    /\ cbPc = "off"
    /\ cbResults = <<>>
    /\ cbDone = <<>>
    /\ cbCalls = <<>>
    /\ cbRet = NoCbRet

\* A scanner built by NewTCPScanner, and a call of ScanPortsWithCallback about
\* to start; ScanPorts passes a nil callback (fingerprint.go:702-704).
CallbackInit ==
    /\ spNetworks \in CallbackNetworks
    /\ spCfgRate \in CallbackRates
    /\ spRate = NewTCPScannerRate(spCfgRate)
    /\ spPort = 0
    /\ spPc = "off"
    /\ spAllIPs = <<>>
    /\ spNext = 1
    /\ spSem = 0
    /\ spWg = 0
    /\ spMu = 0
    /\ spResults = <<>>
    /\ spWorker = <<>>
    /\ spOutcome = <<>>
    /\ spCtxDone = FALSE
    /\ spRet = NoRet
    /\ cbPorts \in CallbackPortLists
    /\ cbCallback \in BOOLEAN
    /\ cbIdx = 1
    /\ cbPc = "loop"
    /\ cbResults = <<>>
    /\ cbDone = <<>>
    /\ cbCalls = <<>>
    /\ cbRet = NoCbRet

\* The context's deadline passes or it is cancelled, between two ports as well.
CbCancel ==
    /\ cbPc \in {"loop", "callback"}
    /\ ~spCtxDone
    /\ spCtxDone' = TRUE
    /\ UNCHANGED <<spNetworks, spCfgRate, spRate, spPort, spPc, spAllIPs, spNext,
                   spSem, spWg, spMu, spResults, spWorker, spOutcome, spRet>>
    /\ UNCHANGED cbVars
    /\ UNCHANGED CallbackOthers

\* fingerprint.go:710-715: the head of the range loop finds the context done
CbCtxDone ==
    /\ cbPc = "loop"
    /\ cbIdx <= Len(cbPorts)
    /\ spCtxDone
    /\ cbPc' = "returned"
    /\ cbRet' = [results |-> cbResults, err |-> "ctx"]
    /\ UNCHANGED <<cbPorts, cbCallback, cbIdx, cbResults, cbDone, cbCalls>>
    /\ UNCHANGED spVars
    /\ UNCHANGED CallbackOthers

\* fingerprint.go:717-718: t.ScanPort(ctx, port) is called; its locals are new
CbScanPort ==
    /\ cbPc = "loop"
    /\ cbIdx <= Len(cbPorts)
    /\ ~spCtxDone
    /\ cbPc' = "scan"
    /\ spPort' = cbPorts[cbIdx]
    /\ spPc' = "expand"
    /\ spAllIPs' = <<>>
    /\ spNext' = 1
    /\ spSem' = 0
    /\ spWg' = 0
    /\ spMu' = 0
    /\ spResults' = <<>>
    /\ spWorker' = <<>>
    /\ spOutcome' = <<>>
    /\ spRet' = NoRet
    /\ UNCHANGED <<spNetworks, spCfgRate, spRate, spCtxDone>>
    /\ UNCHANGED <<cbPorts, cbCallback, cbIdx, cbResults, cbDone, cbCalls, cbRet>>
    /\ UNCHANGED CallbackOthers

\* fingerprint.go:719-722: ScanPort returned an error; continue
CbScanError ==
    /\ cbPc = "scan"
    /\ spPc = "returned"
    /\ spRet.err # "nil"
    /\ cbDone' = Append(cbDone, [port |-> cbPorts[cbIdx], ret |-> spRet])
    /\ cbIdx' = cbIdx + 1
    /\ cbPc' = "loop"
    /\ UNCHANGED <<cbPorts, cbCallback, cbResults, cbCalls, cbRet>>
    /\ UNCHANGED spVars
    /\ UNCHANGED CallbackOthers

\* fingerprint.go:731: callback != nil && len(portResults) > 0
callbackInvoked(callback, portResults) == callback /\ Len(portResults) > 0

\* fingerprint.go:724-733: the port's results go into the map, and to the
\* callback when there is one and the list is not empty
CbMerge ==
    /\ cbPc = "scan"
    /\ spPc = "returned"
    /\ spRet.err = "nil"
    /\ LET port == cbPorts[cbIdx]
           portResults == spRet.results
       IN  /\ cbDone' = Append(cbDone, [port |-> port, ret |-> spRet])
           /\ cbResults' = cbResults \o portResults
           /\ IF callbackInvoked(cbCallback, portResults)
                THEN /\ cbCalls' = Append(cbCalls, [port |-> port, results |-> portResults,
                                                    entry |-> cbIdx])
                     /\ cbPc' = "callback"
                     /\ cbIdx' = cbIdx
                ELSE /\ cbCalls' = cbCalls
                     /\ cbPc' = "loop"
                     /\ cbIdx' = cbIdx + 1
    /\ UNCHANGED <<cbPorts, cbCallback, cbRet>>
    /\ UNCHANGED spVars
    /\ UNCHANGED CallbackOthers

\* fingerprint.go:732-734: the callback returns; the next entry of the range
CbCallbackReturn ==
    /\ cbPc = "callback"
    /\ cbPc' = "loop"
    /\ cbIdx' = cbIdx + 1
    /\ UNCHANGED <<cbPorts, cbCallback, cbResults, cbDone, cbCalls, cbRet>>
    /\ UNCHANGED spVars
    /\ UNCHANGED CallbackOthers

\* fingerprint.go:736: return results, nil
CbEnd ==
    /\ cbPc = "loop"
    /\ cbIdx > Len(cbPorts)
    /\ cbPc' = "returned"
    /\ cbRet' = [results |-> cbResults, err |-> "nil"]
    /\ UNCHANGED <<cbPorts, cbCallback, cbIdx, cbResults, cbDone, cbCalls>>
    /\ UNCHANGED spVars
    /\ UNCHANGED CallbackOthers

(***************************************************************************)
(* main's readiness poll (main.go:76-84) and the call of the initial scan  *)
(* (main.go:239).  HealthCheck returns within the client's 30 s timeout,   *)
(* with nil or with an error.                                              *)
(***************************************************************************)
MaxHealthChecks == 30

\* a poll that goes on until the API answers
pollGoesOnMut(i) == TRUE

\* main.go:78: the loop condition, i < 30
pollGoesOn(i) == i < MaxHealthChecks

StartupOff ==
    /\ hcI = 0
    /\ hcAttempts = 0
    /\ hcReady = FALSE
    /\ hcPc = "off"

\* main.go:74-78: the clients are built, i := 0; no run exists yet
StartupInit ==
    /\ hcI = 0
    /\ hcAttempts = 0
    /\ hcReady = FALSE
    /\ hcPc = "check"
    /\ scanMutex = NoProc
    /\ isScanning = FALSE
    /\ lastScanTime = 0
    /\ now = 1
    /\ mainPc = "poll"
    /\ cronFired = 0
    /\ runs = <<>>
    /\ reqs = <<>>

\* main.go:78-82: the loop condition holds; HealthCheck is called and returns
\* nil (break) or an error
HcCheck ==
    /\ hcPc = "check"
    /\ pollGoesOn(hcI)
    /\ hcAttempts <= MaxHealthChecks       \* the counter of the calls is capped
    /\ hcAttempts' = hcAttempts + 1
    /\ \E ok \in BOOLEAN :
          /\ hcReady' = ok
          /\ hcPc' = IF ok THEN "start" ELSE "sleep"
    /\ UNCHANGED hcI
    /\ UNCHANGED guardVars
    /\ UNCHANGED StartupOthers

\* main.go:83 and 78: time.Sleep(2 * time.Second); i++
HcSleep ==
    /\ hcPc = "sleep"
    /\ hcI' = hcI + 1
    /\ hcPc' = "check"
    /\ UNCHANGED <<hcAttempts, hcReady>>
    /\ UNCHANGED guardVars
    /\ UNCHANGED StartupOthers

\* main.go:78: the loop condition fails
HcGiveUp ==
    /\ hcPc = "check"
    /\ ~pollGoesOn(hcI)
    /\ hcPc' = "start"
    /\ UNCHANGED <<hcI, hcAttempts, hcReady>>
    /\ UNCHANGED guardVars
    /\ UNCHANGED StartupOthers

\* main.go:86-239: runScan is defined, the handlers are registered, the HTTP
\* server is started, and runScan() is called
HcStartScan ==
    /\ hcPc = "start"
    /\ hcPc' = "started"
    /\ mainPc' = "initial"
    /\ runs' = <<NewRun("initial", 0)>>
    /\ UNCHANGED <<hcI, hcAttempts, hcReady>>
    /\ UNCHANGED <<scanMutex, isScanning, lastScanTime, now, cronFired, reqs, cfg, listening>>
    /\ UNCHANGED StartupOthers

(***************************************************************************)
(* ZgrabFingerprinter.FingerprintHost (zgrab.go:224-239): the range loop   *)
(* over the ports, each entry a call of fingerprintPort (the Zg steps      *)
(* above) on the same ZgrabFingerprinter.                                  *)
(***************************************************************************)
\* NewZgrabFingerprinter (zgrab.go:21-27); Timeout in seconds
NewZgrabFingerprinter == [Timeout |-> 10, MaxBanner |-> 4096, Fallback |-> "Fingerprinter"]

HostPortLists == {<<>>, <<22>>, <<22, 80>>, <<9999, 22>>}
HostPeers == {Peer.Down, Peer.SSH}

HostOff ==
    /\ zhSelf = NewZgrabFingerprinter
    /\ zhPorts = <<>>
    /\ zhIdx = 1
    /\ zhPc = "off"
    /\ zhResults = {}
    /\ zhLog = <<>>
    /\ zhCtxDone = FALSE

\* a call FingerprintHost(ctx, ip, ports) about to start
HostInit ==
    /\ zhSelf = NewZgrabFingerprinter
    /\ zhPorts \in HostPortLists
    /\ zhIdx = 1
    /\ zhPc = "loop"
    /\ zhResults = {}
    /\ zhLog = <<>>
    /\ zhCtxDone = FALSE
    /\ ZgrabOff

\* The context's deadline passes or it is cancelled, at any moment.
ZhCancel ==
    /\ zhPc \in {"loop", "call"}
    /\ ~zhCtxDone
    /\ zhCtxDone' = TRUE
    /\ UNCHANGED <<zhSelf, zhPorts, zhIdx, zhPc, zhResults, zhLog>>
    /\ UNCHANGED zgVars
    /\ UNCHANGED HostOthers

\* zgrab.go:228-232: the head of the range loop finds the context done
ZhCtxDone ==
    /\ zhPc = "loop"
    /\ zhIdx <= Len(zhPorts)
    /\ zhCtxDone
    /\ zhPc' = "returned"
    /\ UNCHANGED <<zhSelf, zhPorts, zhIdx, zhResults, zhLog, zhCtxDone>>
    /\ UNCHANGED zgVars
    /\ UNCHANGED HostOthers

\* a fingerprinter that leaves the grabber out once it has failed
grabberFirstMut(self, log) ==
    \A k \in 1 .. Len(log) : log[k][Len(log[k])] # "Fallback.fingerprintPort"

\* zgrab.go:241-287: fingerprintPort reads no field of z before runZgrab, and
\* nothing of an earlier call: the grabber is always run first
grabberFirst(self, log) == TRUE

\* zgrab.go:234: z.fingerprintPort(ctx, ip, port) is called; what zgrab2 does
\* for the port and how the port answers a native probe are the environment's
ZhCall ==
    /\ zhPc = "loop"
    /\ zhIdx <= Len(zhPorts)
    /\ ~zhCtxDone
    /\ zhPc' = "call"
    /\ zgPort' = zhPorts[zhIdx]
    /\ zgPeer' \in HostPeers
    /\ zgOut' \in ZgrabOutputs
    /\ zgPc' = IF grabberFirst(zhSelf, zhLog) THEN "run" ELSE "fallback"
    /\ zgInfo' = EmptyInfo
    /\ zgCalls' = <<>>
    /\ UNCHANGED <<zhSelf, zhPorts, zhIdx, zhResults, zhLog, zhCtxDone>>
    /\ UNCHANGED HostOthers

\* zgrab.go:234-235: fingerprintPort returned; results[port] = info
ZhStore ==
    /\ zhPc = "call"
    /\ zgPc = "returned"
    /\ zhResults' = {e \in zhResults : e[1] # zgPort} \cup {<<zgPort, zgInfo>>}
    /\ zhLog' = Append(zhLog, zgCalls)
    /\ zhIdx' = zhIdx + 1
    /\ zhPc' = "loop"
    /\ UNCHANGED <<zhSelf, zhPorts, zhCtxDone>>
    /\ UNCHANGED zgVars
    /\ UNCHANGED HostOthers

\* zgrab.go:336: the nil dereference in parseZgrabResult unwinds FingerprintHost
ZhPanic ==
    /\ zhPc = "call"
    /\ zgPc = "panicked"
    /\ zhLog' = Append(zhLog, zgCalls)
    /\ zhPc' = "panicked"
    /\ UNCHANGED <<zhSelf, zhPorts, zhIdx, zhResults, zhCtxDone>>
    /\ UNCHANGED zgVars
    /\ UNCHANGED HostOthers

\* zgrab.go:238: return results
ZhEnd ==
    /\ zhPc = "loop"
    /\ zhIdx > Len(zhPorts)
    /\ zhPc' = "returned"
    /\ UNCHANGED <<zhSelf, zhPorts, zhIdx, zhResults, zhLog, zhCtxDone>>
    /\ UNCHANGED zgVars
    /\ UNCHANGED HostOthers

(***************************************************************************)
(* The delegated backend's loops: ZmapScanner.ScanPorts with ScanPort      *)
(* (zmap.go:167-192, 46-59) and ScanAllPorts with scanNetworkAllPorts      *)
(* (zmap.go:195-251), each pair (network, port) a call of scanNetworkPort  *)
(* (the Zn steps above) under the one context of the run.                  *)
(***************************************************************************)
\* the configured networks, by position, and the ports of an all-ports scan
LoopNetworks == {1, 2}
LoopAllPorts == <<1, 2>>
LoopPortLists == {<<22>>, <<22, 80>>}
LoopProcs ==
    {[rows |-> <<[err |-> FALSE, first |-> <<115, 97, 100, 100, 114>>],
                 [err |-> FALSE, first |-> <<55>>]>>, exit |-> 0, stderr |-> ""],
     [rows |-> <<>>, exit |-> 1, stderr |-> "text"]}

LoopOff ==
    /\ zpMode = "ports"
    /\ zpPorts = <<>>
    /\ zpP = 1
    /\ zpN = 1
    /\ zpPc = "off"
    /\ zpLog = <<>>
    /\ zpErr = "none"

\* ScanPorts(ctx, ports) or ScanAllPorts(ctx) about to start
LoopInit ==
    /\ zpMode \in {"ports", "all"}
    /\ zpPorts \in IF zpMode = "ports" THEN LoopPortLists
                   ELSE {LoopAllPorts}
    /\ zpP = 1
    /\ zpN = 1
    /\ zpPc = IF zpMode = "ports" THEN "portLoop" ELSE "netLoop"
    /\ zpLog = <<>>
    /\ zpErr = "none"
    /\ ZmapNetOff

LoopFrame == <<znPort, znProc, znPc, znFiles, znCreated, znDefers, znKilled, znResults, znRet>>

\* The context is cancelled, or its deadline passes, between two calls of
\* scanNetworkPort.
ZpCancel ==
    /\ zpPc \in {"portLoop", "netLoop"}
    /\ ~znCtxDone
    /\ znCtxDone' = TRUE
    /\ UNCHANGED LoopFrame
    /\ UNCHANGED zpVars
    /\ UNCHANGED LoopOthers

\* zmap.go:171-175: ScanPorts finds the context done at the next port and
\* returns; zmap.go:235-239, 201-205: scanNetworkAllPorts does and returns,
\* and ScanAllPorts goes on to the next network
ZpCtxDone ==
    /\ zpPc = "portLoop"
    /\ zpP <= Len(zpPorts)
    /\ znCtxDone
    /\ IF zpMode = "ports"
         THEN zpPc' = "returned" /\ zpErr' = "ctx" /\ UNCHANGED zpN
         ELSE zpPc' = "netLoop" /\ zpN' = zpN + 1 /\ UNCHANGED zpErr
    /\ UNCHANGED <<zpMode, zpPorts, zpP, zpLog>>
    /\ UNCHANGED znVars
    /\ UNCHANGED LoopOthers

\* zmap.go:178: ScanPorts calls ScanPort for the port; zmap.go:241: the next
\* port of scanNetworkAllPorts
ZpPort ==
    /\ zpPc = "portLoop"
    /\ zpP <= Len(zpPorts)
    /\ ~znCtxDone
    /\ IF zpMode = "ports"
         THEN /\ zpPc' = "netLoop"
              /\ zpN' = 1
              /\ UNCHANGED znVars
         ELSE /\ zpPc' = "call"
              /\ znPort' = zpPorts[zpP]
              /\ znProc' \in LoopProcs
              /\ znPc' = "whitelist"
              /\ UNCHANGED <<znFiles, znCreated, znDefers, znCtxDone, znKilled,
                             znResults, znRet, zpN>>
    /\ UNCHANGED <<zpMode, zpPorts, zpP, zpLog, zpErr>>
    /\ UNCHANGED LoopOthers

\* zmap.go:192: ScanPorts is through the ports; zmap.go:251: so is
\* scanNetworkAllPorts, and ScanAllPorts goes on to the next network
ZpPortsEnd ==
    /\ zpPc = "portLoop"
    /\ zpP > Len(zpPorts)
    /\ IF zpMode = "ports"
         THEN zpPc' = "returned" /\ zpErr' = "nil" /\ UNCHANGED zpN
         ELSE zpPc' = "netLoop" /\ zpN' = zpN + 1 /\ UNCHANGED zpErr
    /\ UNCHANGED <<zpMode, zpPorts, zpP, zpLog>>
    /\ UNCHANGED znVars
    /\ UNCHANGED LoopOthers

\* zmap.go:49-50: ScanPort calls scanNetworkPort for the next network, with
\* no look at the context; zmap.go:198-200: ScanAllPorts calls
\* scanNetworkAllPorts for the next network
ZpNet ==
    /\ zpPc = "netLoop"
    /\ zpN \in LoopNetworks
    /\ IF zpMode = "ports"
         THEN /\ zpPc' = "call"
              /\ znPort' = zpPorts[zpP]
              /\ znProc' \in LoopProcs
              /\ znPc' = "whitelist"
              /\ UNCHANGED <<znFiles, znCreated, znDefers, znCtxDone, znKilled,
                             znResults, znRet, zpP>>
         ELSE /\ zpPc' = "portLoop"
              /\ zpP' = 1
              /\ UNCHANGED znVars
    /\ UNCHANGED <<zpMode, zpPorts, zpN, zpLog, zpErr>>
    /\ UNCHANGED LoopOthers

\* zmap.go:58: ScanPort is through the networks and ScanPorts goes on to the
\* next port; zmap.go:211: ScanAllPorts returns results, nil
ZpNetsEnd ==
    /\ zpPc = "netLoop"
    /\ zpN \notin LoopNetworks
    /\ IF zpMode = "ports"
         THEN zpPc' = "portLoop" /\ zpP' = zpP + 1 /\ UNCHANGED zpErr
         ELSE zpPc' = "returned" /\ zpErr' = "nil" /\ UNCHANGED zpP
    /\ UNCHANGED <<zpMode, zpPorts, zpN, zpLog>>
    /\ UNCHANGED znVars
    /\ UNCHANGED LoopOthers

\* zmap.go:50-55, 241-244: scanNetworkPort returned; the next network of
\* ScanPort, or the next port of scanNetworkAllPorts
ZpCallReturn ==
    /\ zpPc = "call"
    /\ znPc = "returned"
    /\ zpLog' = Append(zpLog, [net |-> zpN, port |-> znPort, err |-> znRet.err,
                               killed |-> znKilled])
    /\ IF zpMode = "ports"
         THEN zpPc' = "netLoop" /\ zpN' = zpN + 1 /\ UNCHANGED zpP
         ELSE zpPc' = "portLoop" /\ zpP' = zpP + 1 /\ UNCHANGED zpN
    /\ znPc' = "off"
    /\ znPort' = 0
    /\ znProc' = [rows |-> <<>>, exit |-> 0, stderr |-> ""]
    /\ znKilled' = FALSE
    /\ znResults' = <<>>
    /\ znRet' = NoZmapRet
    /\ znCreated' = {}
    /\ UNCHANGED <<znFiles, znDefers, znCtxDone>>
    /\ UNCHANGED <<zpMode, zpPorts, zpErr>>
    /\ UNCHANGED LoopOthers

(***************************************************************************)
(* The /status handler (main.go:214-228), beside the runs of runScan and   *)
(* the /trigger handler.                                                   *)
(***************************************************************************)
MaxStatus == 2

StatusProc == <<"status", 0>>

StatusOff ==
    /\ stPc = "off"
    /\ stObs = <<>>

StatusInit ==
    /\ stPc = "idle"
    /\ stObs = <<>>

\* a GET /status request arrives
StArrive ==
    /\ stPc = "idle"
    /\ Len(stObs) < MaxStatus
    /\ stPc' = "lock"
    /\ UNCHANGED stObs
    /\ UNCHANGED guardVars
    /\ UNCHANGED StatusOthers

\* main.go:215: scanMutex.Lock()
StLock ==
    /\ stPc = "lock"
    /\ scanMutex = NoProc
    /\ scanMutex' = StatusProc
    /\ stPc' = "read"
    /\ UNCHANGED stObs
    /\ UNCHANGED <<isScanning, lastScanTime, now, mainPc, cronFired, runs, reqs, cfg, listening>>
    /\ UNCHANGED StatusOthers

\* main.go:216-227: scanning := isScanning; lastScan := lastScanTime; unlock;
\* the answer has last_scan_time unless lastScan is the zero time.  Beside
\* what was read: the number of runs that had completed by then.
StRead ==
    /\ stPc = "read"
    /\ scanMutex = StatusProc
    /\ scanMutex' = NoProc
    /\ stObs' = Append(stObs,
                   [is_scanning |-> isScanning,
                    last_scan_time |-> lastScanTime,
                    completed |-> Cardinality({i \in 1 .. Len(runs) : runs[i].pc = "done"})])
    /\ stPc' = "idle"
    /\ UNCHANGED <<isScanning, lastScanTime, now, mainPc, cronFired, runs, reqs, cfg, listening>>
    /\ UNCHANGED StatusOthers

\* the components added after the first ones are switched off
LateOff == HostOff /\ LoopOff /\ StatusOff

\* every component driven on its own is switched off
UnitsOff == SanitizeOff /\ ZgrabOff /\ ZmapNetOff /\ CallbackOff /\ StartupOff /\ LateOff

CoreOff == ExpandOff /\ ScanPortOff /\ FingerprintOff /\ GuardOff

(***************************************************************************)
(* Specifications.                                                         *)
(***************************************************************************)
NextExpand == ExpandParse \/ ExpandLoop \/ ExpandTrim

InitExpand == ExpandInit /\ ScanPortOff /\ FingerprintOff /\ GuardOff /\ UnitsOff

SpecExpand == InitExpand /\ [][NextExpand]_vars

NextScanPort ==
    \/ SpCancel
    \/ SpExpand
    \/ SpCheck
    \/ SpAcquire
    \/ SpWorkerStep
    \/ SpWait

InitScanPort == ScanPortInit /\ ExpandOff /\ FingerprintOff /\ GuardOff /\ UnitsOff

SpecScanPort == InitScanPort /\ [][NextScanPort]_vars

\* the steps of ScanPort and of its goroutines; the context's end is not one
ScanPortProgramStep == SpExpand \/ SpCheck \/ SpAcquire \/ SpWorkerStep \/ SpWait

\* Go schedules every runnable goroutine, and every dial returns within its
\* timeout
SpecScanPortFair == SpecScanPort /\ WF_vars(ScanPortProgramStep)

NextFingerprint == FpProbe \/ FpGuess \/ FpDefault

InitFingerprint == FingerprintInit /\ ExpandOff /\ ScanPortOff /\ GuardOff /\ UnitsOff

SpecFingerprint == InitFingerprint /\ [][NextFingerprint]_vars

\* the guard's steps of one invocation of runScan
GuardStep(i) == RsLock(i) \/ RsSkip(i) \/ RsEnter(i) \/ RsDeferLock(i) \/ RsDeferReset(i)

\* the steps of the scan body over the native backend with an explicit port list
TcpBodyStep(i) ==
    \/ RsBegin(i)
    \/ RsTcpCtxDone(i) \/ RsTcpScanPort(i) \/ RsTcpScanPortExpires(i) \/ RsTcpPortsEnd(i)
    \/ RsCallback(i) \/ RsSubmit(i)
    \/ RsScanned(i) \/ RsBatchHost(i)

\* the steps of the scan body that only zmap takes
ZmapBodyStep(i) ==
    \/ RsZmapCtxDone(i) \/ RsZmapScanPort(i) \/ RsZmapPortsEnd(i)
    \/ RsZmapAllCtxDone(i) \/ RsZmapAllPort(i) \/ RsZmapAllNetEnd(i)

\* the steps of one /trigger request
TriggerStep(r) == TrLock(r) \/ TrRead(r) \/ TrBusy(r) \/ TrStart(r)

\* The guard under every interleaving of the initial scan, the schedule and
\* /trigger requests; the runs scan with the native backend.
GuardProgramStep ==
    \/ \E i \in 1 .. Len(runs) : GuardStep(i) \/ TcpBodyStep(i)
    \/ \E r \in 1 .. Len(reqs) : TriggerStep(r)

GuardEnvironmentStep ==
    \/ \E method \in Methods : TrArrive(method)
    \/ CronFire
    \/ \E i \in 1 .. Len(runs) : CtxExpire(i)

NextGuard == GuardProgramStep \/ GuardEnvironmentStep

GuardConfigs == {c \in Configs : ~c.useZmap /\ ~c.ScanAllPorts /\ c.Ports = <<22>>}
GuardListening == {{<<"10.0.0.1", 22>>}}

InitGuard ==
    /\ GuardInit
    /\ cfg \in GuardConfigs
    /\ listening \in GuardListening
    /\ ExpandOff /\ ScanPortOff /\ FingerprintOff /\ UnitsOff

SpecGuard == InitGuard /\ [][NextGuard]_vars

\* Go schedules every runnable goroutine, and a Lock on a free mutex succeeds
SpecGuardFair == SpecGuard /\ WF_vars(GuardProgramStep)

\* One run (the initial scan, no request and no schedule) under every
\* configuration and every set of listening endpoints.
NextRun ==
    \/ RsLock(1) \/ RsEnter(1) \/ RsDeferLock(1) \/ RsDeferReset(1)
    \/ TcpBodyStep(1)
    \/ ZmapBodyStep(1)
    \/ CtxExpire(1)

RunListening ==
    SUBSET {<<"10.0.0.1", 22>>, <<"10.0.0.2", 22>>, <<"10.0.0.1", 2>>, <<"10.0.0.1", 3>>,
            <<"10.0.0.2", 1>>}

InitRun ==
    /\ GuardInit
    /\ cfg \in Configs
    /\ listening \in RunListening
    /\ ExpandOff /\ ScanPortOff /\ FingerprintOff /\ UnitsOff

SpecRun == InitRun /\ [][NextRun]_vars

NextSanitize == SanitizeCall \/ SanitizeRecall

InitSanitize == SanitizeInit /\ CoreOff /\ ZgrabOff /\ ZmapNetOff /\ CallbackOff /\ StartupOff /\ LateOff

SpecSanitize == InitSanitize /\ [][NextSanitize]_vars

NextZgrab == ZgRun \/ ZgFallback \/ ZgParse \/ ZgName

InitZgrab == ZgrabInit /\ CoreOff /\ SanitizeOff /\ ZmapNetOff /\ CallbackOff /\ StartupOff /\ LateOff

SpecZgrab == InitZgrab /\ [][NextZgrab]_vars

NextZmapNet ==
    \/ ZnCancel
    \/ ZnCreateWhitelist \/ ZnWriteWhitelist \/ ZnCreateBlacklist
    \/ ZnPipes \/ ZnStart \/ ZnRead \/ ZnWait
    \/ ZnDeferred \/ ZnReturned

InitZmapNet == ZmapNetInit /\ CoreOff /\ SanitizeOff /\ ZgrabOff /\ CallbackOff /\ StartupOff /\ LateOff

SpecZmapNet == InitZmapNet /\ [][NextZmapNet]_vars

\* ScanPortsWithCallback with the goroutines of each ScanPort call
NextCallback ==
    \/ CbCancel
    \/ CbCtxDone
    \/ CbScanPort
    \/ CbScanError
    \/ CbMerge
    \/ CbCallbackReturn
    \/ CbEnd
    \/ SpCancel
    \/ SpExpand
    \/ SpCheck
    \/ SpAcquire
    \/ SpWorkerStep
    \/ SpWait

InitCallback ==
    /\ CallbackInit
    /\ ExpandOff /\ FingerprintOff /\ GuardOff
    /\ SanitizeOff /\ ZgrabOff /\ ZmapNetOff /\ StartupOff /\ LateOff

SpecCallback == InitCallback /\ [][NextCallback]_vars

\* FingerprintHost with the steps of each fingerprintPort call
NextHost ==
    \/ ZhCancel
    \/ ZhCtxDone
    \/ ZhCall
    \/ ZhStore
    \/ ZhPanic
    \/ ZhEnd
    \/ ZgRun
    \/ ZgFallback
    \/ ZgParse
    \/ ZgName

InitHost ==
    /\ HostInit
    /\ CoreOff /\ SanitizeOff /\ ZmapNetOff /\ CallbackOff /\ StartupOff /\ LoopOff
    /\ StatusOff

SpecHost == InitHost /\ [][NextHost]_vars

\* the delegated backend's loops with the steps of each scanNetworkPort call
NextLoop ==
    \/ ZpCancel
    \/ ZpCtxDone
    \/ ZpPort
    \/ ZpPortsEnd
    \/ ZpNet
    \/ ZpNetsEnd
    \/ ZpCallReturn
    \/ ZnCancel
    \/ ZnCreateWhitelist
    \/ ZnWriteWhitelist
    \/ ZnCreateBlacklist
    \/ ZnPipes
    \/ ZnStart
    \/ ZnRead
    \/ ZnWait
    \/ ZnDeferred
    \/ ZnReturned

InitLoop ==
    /\ LoopInit
    /\ CoreOff /\ SanitizeOff /\ ZgrabOff /\ CallbackOff /\ StartupOff /\ HostOff
    /\ StatusOff

SpecLoop == InitLoop /\ [][NextLoop]_vars

\* the guard as in SpecGuard, with /status requests beside
StatusStep == StArrive \/ StLock \/ StRead

NextStatus == GuardProgramStep \/ GuardEnvironmentStep \/ StatusStep

InitStatus ==
    /\ GuardInit
    /\ cfg \in GuardConfigs
    /\ listening \in GuardListening
    /\ StatusInit
    /\ ExpandOff /\ ScanPortOff /\ FingerprintOff
    /\ SanitizeOff /\ ZgrabOff /\ ZmapNetOff /\ CallbackOff /\ StartupOff
    /\ HostOff /\ LoopOff

SpecStatus == InitStatus /\ [][NextStatus]_vars

\* main from the readiness poll to the end of the initial scan
StartupRunStep(i) ==
    RsLock(i) \/ RsEnter(i) \/ RsDeferLock(i) \/ RsDeferReset(i) \/ TcpBodyStep(i)

StartupProgramStep ==
    \/ HcCheck
    \/ HcSleep
    \/ HcGiveUp
    \/ HcStartScan
    \/ \E i \in 1 .. Len(runs) : StartupRunStep(i)

NextStartup ==
    \/ StartupProgramStep
    \/ \E i \in 1 .. Len(runs) : CtxExpire(i)

InitStartup ==
    /\ StartupInit
    /\ cfg \in GuardConfigs
    /\ listening \in GuardListening
    /\ ExpandOff /\ ScanPortOff /\ FingerprintOff
    /\ SanitizeOff /\ ZgrabOff /\ ZmapNetOff /\ CallbackOff /\ LateOff

SpecStartup == InitStartup /\ [][NextStartup]_vars

\* main's goroutine is scheduled, and every call it makes returns
SpecStartupFair == SpecStartup /\ WF_vars(StartupProgramStep)

(***************************************************************************)
(* Helpers used to state the claims about expandCIDR.                      *)
(***************************************************************************)
RECURSIVE AddrValueFrom(_, _)
AddrValueFrom(ip, j) ==
    IF j < 1 THEN 0 ELSE ip[j] + ByteMod * AddrValueFrom(ip, j - 1)

AddrValue(ip) == AddrValueFrom(ip, AddrBytes)

RECURSIVE AddrOfValueFrom(_, _)
AddrOfValueFrom(v, j) ==
    IF j > AddrBytes THEN <<>>
    ELSE <<(v \div Pow2(ByteBits * (AddrBytes - j))) % ByteMod>> \o AddrOfValueFrom(v, j + 1)

AddrOfValue(v) == AddrOfValueFrom(v, 1)

RangeSize(cidr) == Pow2(AddrBits - cidr.prefix)
RangeFirst(cidr) == AddrValue(cidr.ip) - (AddrValue(cidr.ip) % RangeSize(cidr))
\* the i-th address (1-based) of the masked range, in numeric order
RangeAddr(cidr, i) == AddrOfValue(RangeFirst(cidr) + i - 1)

UnalignedExpanded ==
    /\ expPc = "returned"
    /\ ~expErr
    /\ RangeSize(expCidr) > 2
    /\ AddrValue(expCidr.ip) # RangeFirst(expCidr)

\* the addresses of the masked range that are not among the targets
DroppedAddrs ==
    {RangeAddr(expCidr, i) : i \in 1 .. RangeSize(expCidr)} \ SeqRange(expIps)

InFlight == {i \in 1 .. Len(spAllIPs) : spWorker[i] \in {"dial", "lock", "append", "release"}}

\* C5: for a scanner built by NewTCPScanner with rate R, the connection
\* attempts in flight never exceed R when R > 0, and never exceed the default
\* of 100 when R <= 0.
C5_InFlightAtMostRate ==
    (spPc # "off") =>
        LET R == IF spCfgRate > 0 THEN spCfgRate ELSE 100
        IN  /\ spRate = R
            /\ Cardinality(InFlight) <= R

C5_Witness ==
    /\ spCfgRate = 2
    /\ Cardinality(InFlight) = 2
    /\ spPc = "acquire"
    /\ spNext = 3

CountResults(results, ip) == Cardinality({k \in 1 .. Len(results) : results[k].IP = ip})
CountOpen(ip) ==
    Cardinality({i \in 1 .. Len(spAllIPs) : spAllIPs[i] = ip /\ spOutcome[i] = "open"})

\* C8: when ScanPort returns without cancellation, every target was dialled,
\* and the returned list holds one entry (with the scanned port) per dial that
\* succeeded and none for a dial that failed: a target is reported exactly
\* when its connection attempt succeeded.
C8_ResultsAreTheOpenTargets ==
    (spPc = "returned" /\ spRet.err = "nil") =>
        /\ \A i \in 1 .. Len(spAllIPs) : spOutcome[i] \in {"open", "closed"}
        /\ \A k \in 1 .. Len(spRet.results) :
              /\ spRet.results[k].Port = spPort
              /\ \E i \in 1 .. Len(spAllIPs) :
                    spAllIPs[i] = spRet.results[k].IP /\ spOutcome[i] = "open"
        /\ \A i \in 1 .. Len(spAllIPs) :
              CountResults(spRet.results, spAllIPs[i]) = CountOpen(spAllIPs[i])

C8_Witness ==
    /\ spPc = "returned"
    /\ spRet.err = "nil"
    /\ Len(spAllIPs) = 3
    /\ Len(spRet.results) = 2
    /\ \E i \in 1 .. Len(spAllIPs) : spOutcome[i] = "closed"

\* C7: while the expansion loop of a valid range runs, the addresses visited so
\* far are the first addresses of the masked range in ascending numeric order,
\* each once; so no more than the N addresses of the range are ever visited
\* and the loop ends after the last one.
C7_VisitsEachOnceAscending ==
    (expPc \in {"loop", "trim"}) =>
        /\ Len(expIps) <= RangeSize(expCidr)
        /\ \A i \in 1 .. Len(expIps) : expIps[i] = RangeAddr(expCidr, i)

(***************************************************************************)
(* Claims about the native fingerprinter.                                  *)
(***************************************************************************)
\* the call returned and its dial had failed
FpUnreachableReturned == fpPc = "returned" /\ ~fpPeer.dial

FpOptionalFieldsEmpty ==
    /\ fpInfo.ServiceVersion = <<>>
    /\ fpInfo.Banner = <<>>
    /\ fpInfo.Fingerprint.kv = {}

\* C10, as claimed: fingerprinting an unreachable address:port returns with
\* service_version, banner and fingerprint_data empty and service_name equal to
\* the port's entry of the default-name table, or "unknown" without an entry.
C10_NameIsTableDefault ==
    FpUnreachableReturned =>
        /\ FpOptionalFieldsEmpty
        /\ fpInfo.ServiceName =
              (IF fpPort \in DefaultNamePorts THEN defaultServiceTable(fpPort) ELSE "unknown")

\* the protocol each dedicated probe stands for; "" for a port without one
DedicatedProbeName(port) ==
    CASE port = 21 -> "ftp"
      [] port = 22 -> "ssh"
      [] port = 23 -> "telnet"
      [] port \in {25, 465, 587} -> "smtp"
      [] port \in {80, 8080, 8000, 8888} -> "http"
      [] port \in {443, 8443} -> "https"
      [] port = 110 -> "pop3"
      [] port = 143 -> "imap"
      [] port = 3306 -> "mysql"
      [] port = 5432 -> "postgresql"
      [] port = 6379 -> "redis"
      [] port = 27017 -> "mongodb"
      [] OTHER -> ""

\* C10, amended: fingerprinting an unreachable address:port returns with
\* service_version, banner and fingerprint_data empty; service_name is the
\* protocol name of the port's dedicated probe when the port has one, and
\* otherwise the port's entry of the default-name table, or "unknown".
C10_NameIsProbeNameElseDefault ==
    FpUnreachableReturned =>
        /\ FpOptionalFieldsEmpty
        /\ fpInfo.Fingerprint.nil
        /\ fpInfo.ServiceName =
              (IF DedicatedProbeName(fpPort) # "" THEN DedicatedProbeName(fpPort)
               ELSE IF fpPort \in DefaultNamePorts THEN defaultServiceTable(fpPort)
               ELSE "unknown")

C10_Witness ==
    /\ FpUnreachableReturned
    /\ fpPort = 465
    /\ fpInfo.ServiceName = "smtp"

(***************************************************************************)
(* Claims about the concurrency guard and the /trigger handler.            *)
(***************************************************************************)
MaxRuns == 1 + MaxCron + MaxTriggers

\* the invocation is between setting isScanning = true and the end of the
\* deferred reset
InScanBody(i) == runs[i].pc \in ScanPcs \cup {"deferLock", "deferReset"}

\* C1: across every interleaving of the initial scan, cron-fired and
\* /trigger-spawned invocations, at most one invocation is in the scan body.
C1_AtMostOneRunInBody ==
    Cardinality({i \in 1 .. Len(runs) : InScanBody(i)}) <= 1

C1_Witness ==
    \E i, j \in 1 .. Len(runs) :
        /\ runs[i].kind = "cron" /\ InScanBody(i)
        /\ runs[j].kind = "trigger" /\ runs[j].pc = "skipped"
        /\ runs[1].pc = "done"

\* C2: an invocation that finds the guard taken returns at once: that step
\* changes neither isScanning nor lastScanTime nor anything of the invocation
\* but its position; it has probed, fingerprinted and submitted nothing; and
\* it never moves again, so it starts no run once the guard is idle.
C2_SkippedRunDoesNothing ==
    [][\A i \in 1 .. Len(runs) :
          /\ (runs[i].pc = "test" /\ isScanning /\ runs'[i] # runs[i]) =>
                /\ runs'[i] = [runs[i] EXCEPT !.pc = "skipped"]
                /\ isScanning' = isScanning
                /\ lastScanTime' = lastScanTime
          /\ runs[i].pc = "skipped" =>
                /\ runs'[i] = runs[i]
                /\ runs[i].reported = {}
                /\ runs[i].fingerprinted = {}
                /\ runs[i].submitted = <<>>
                /\ runs[i].hostPorts = <<>>]_vars

C2_Witness ==
    /\ ~isScanning
    /\ lastScanTime # 0
    /\ \A i \in 1 .. Len(runs) : runs[i].pc \in {"skipped", "done"}
    /\ \E i \in 1 .. Len(runs) : runs[i].pc = "skipped" /\ runs[i].kind = "trigger"

\* C3: every invocation that took the guard reaches its return, whichever way
\* the scan body ends, and the step that returns gives the guard back: it sets
\* isScanning to false, stores the current time in lastScanTime and leaves the
\* mutex free.
C3_RunGivesGuardBack ==
    /\ \A i \in 1 .. MaxRuns :
          (i <= Len(runs) /\ runs[i].pc \in ScanPcs) ~> (i <= Len(runs) /\ runs[i].pc = "done")
    /\ [][\A i \in 1 .. Len(runs) :
             (runs[i].pc \in ScanPcs \cup {"deferLock", "deferReset"} /\ runs'[i].pc = "done") =>
                 /\ isScanning /\ ~isScanning'
                 /\ lastScanTime' = now /\ lastScanTime' # 0 /\ lastScanTime' > lastScanTime
                 /\ scanMutex' = NoProc]_vars

\* a run of the batch version that returned early on the scan's error
C3_Witness ==
    \E i \in 1 .. Len(runs) :
        /\ cfg.version = "batch"
        /\ runs[i].pc = "done"
        /\ runs[i].err = "ctx"
        /\ runs[i].submitted = <<>>
        /\ ~isScanning
        /\ lastScanTime # 0

\* C4: a POST /trigger is answered "already_running" exactly when it starts
\* no run: a request answered "started" has spawned an invocation that the
\* guard does not skip, and one answered "already_running" spawned none.
C4_StartedMeansARunStarts ==
    \A r \in 1 .. Len(reqs) :
        /\ reqs[r].status = "started" =>
              reqs[r].run # 0 /\ runs[reqs[r].run].pc # "skipped"
        /\ reqs[r].status = "already_running" => reqs[r].run = 0

(***************************************************************************)
(* Claims about the scan body.                                             *)
(***************************************************************************)
\* how many port results of the submissions are for the endpoint e
SubmittedCount(submitted, e) ==
    Cardinality(UNION {{<<k, j>> : j \in {n \in 1 .. Len(submitted[k].Ports) :
                                              /\ submitted[k].IPAddress = e[1]
                                              /\ submitted[k].Ports[n].PortNumber = e[2]}} :
                       k \in 1 .. Len(submitted)})

\* C9: when a run is over (here: one whose deadline never passed), every
\* endpoint the backend reported open was handed to the fingerprinter, and
\* exactly one port result for it was handed to apiClient.SubmitResults,
\* whatever the backend and the port mode.
C9_ReportedEndpointsAreSubmittedOnce ==
    \A i \in 1 .. Len(runs) :
        (runs[i].pc = "done" /\ ~runs[i].ctxDone) =>
            \A e \in runs[i].reported :
                /\ e \in runs[i].fingerprinted
                /\ SubmittedCount(runs[i].submitted, e) = 1

(***************************************************************************)
(* Claims about sanitizeBanner.                                            *)
(***************************************************************************)
\* C11: sanitizeBanner is idempotent: applied to a banner it returned, it
\* returns that banner again.
C11_SanitizeIdempotent == sanPc = "twice" => sanAgain = sanOut

\* a banner of printable ASCII only, without whitespace at either end, of at
\* most the limit plus the ellipsis
SanitizedShape(b) ==
    /\ \A i \in 1 .. Len(b) : b[i] \in 32 .. 126
    /\ b # <<>> => ~IsSpace(b[1]) /\ ~IsSpace(b[Len(b)])
    /\ Len(b) <= BannerLimit + Len(Txt.dots)

\* C12: whatever the input, the banner sanitizeBanner returns holds only
\* printable ASCII (32 to 126), has no whitespace at either end and is at
\* most 512 characters plus the 3 of the ellipsis long.
C12_SanitizedOutputShape ==
    /\ sanPc \in {"once", "twice"} => SanitizedShape(sanOut)
    /\ sanPc = "twice" => SanitizedShape(sanAgain)

\* an input over the limit, with runes the filter drops and whitespace at
\* both ends, came back cut to the limit plus the ellipsis
C12_Witness ==
    /\ sanPc = "once"
    /\ \E i \in 1 .. Len(sanIn) : sanIn[i] \notin 32 .. 126
    /\ IsSpace(sanIn[1]) /\ IsSpace(sanIn[Len(sanIn)])
    /\ Len(filterPrintable(TrimSpace(sanIn))) > BannerLimit
    /\ Len(sanOut) = BannerLimit + Len(Txt.dots)

(***************************************************************************)
(* Claims about the delegated fingerprinter.                               *)
(***************************************************************************)
\* C13: when the grabber call fails (the process does not start, exits
\* non-zero, is killed at the timeout, or writes output that is not a JSON
\* ZgrabResult), the delegated strategy returns exactly the ServiceInfo the
\* native prober returns for the same port against the same peer.
C13_FailedGrabReturnsNativeInfo ==
    (zgPc = "returned" /\ (zgOut.run # "ok" \/ ~zgOut.json))
        => zgInfo = fingerprintPort(zgPort, zgPeer)

\* with and without a process error: zgrab2 wrote no JSON for an SSH server
\* on port 22, and the native banner came back
C13_Witness ==
    /\ zgPc = "returned"
    /\ zgOut.run = "ok" /\ ~zgOut.json
    /\ zgPort = 22 /\ zgPeer = Peer.SSH
    /\ zgInfo.ServiceName = "ssh" /\ zgInfo.Banner # <<>>
    /\ zgCalls = <<"runZgrab", "Fallback.fingerprintPort">>

\* the grabber failed for this (ip, port): the run, the top-level parse, or
\* the module's entry (missing, not successful, or not decodable)
GrabFailed(out) ==
    \/ out.run # "ok"
    \/ ~out.json
    \/ ~out.entry.present
    \/ ~out.entry.null /\ (out.entry.Status # "success" \/ ~out.entry.decodes)

\* C14: on every execution or parse failure of the grabber, a missing module
\* entry, a status other than success and an undecodable module result
\* included, the native prober is called for that (ip, port).
C14_AnyFailureFallsBack ==
    (zgPc = "returned" /\ GrabFailed(zgOut))
        => zgCalls[Len(zgCalls)] = "Fallback.fingerprintPort"

(***************************************************************************)
(* Claims about scanNetworkPort.                                           *)
(***************************************************************************)
\* C15: whichever way scanNetworkPort returns, none of the temporary files
\* it created exists any more.
C15_TempFilesRemovedOnReturn == znPc = "returned" => znFiles = {}

\* both files were created, the process failed to start, and both are gone
C15_Witness ==
    /\ znPc = "returned"
    /\ znCreated = {"whitelist", "blacklist"}
    /\ znRet.err = "failed to start zmap"
    /\ znFiles = {}

\* C16: when the process exits non-zero and the context is not cancelled,
\* scanNetworkPort returns an error exactly when no address was parsed and
\* the process wrote to stderr; otherwise it returns the parsed addresses
\* and a nil error.
C16_NonZeroExitFailsOnlyWithoutResults ==
    (znPc = "returned" /\ znRet.err \in {"nil", "ctx", "zmap failed"}
        /\ znProc.exit # 0 /\ ~znCtxDone)
    => LET parsed == readResults(znProc.rows, znPort)
       IN  IF parsed = <<>> /\ znProc.stderr # ""
             THEN znRet.err = "zmap failed" /\ znRet.results = <<>>
             ELSE znRet.err = "nil" /\ znRet.results = parsed

\* a non-zero exit with diagnostic text is tolerated because two addresses
\* were parsed
C16_Witness ==
    /\ znPc = "returned"
    /\ znProc.exit # 0 /\ ~znCtxDone /\ znProc.stderr # ""
    /\ Len(znRet.results) = 2
    /\ znRet.err = "nil"

\* a record that parsed and whose first field is not empty
WellFormedRow(r) == ~r.err /\ r.first # <<>>

\* one result per well-formed record after the first record, in their order
ExpectedResults(rows, port) ==
    LET later == SelectSeq(SubSeq(rows, 2, Len(rows)), WellFormedRow)
    IN  [k \in 1 .. Len(later) |-> [IP |-> TrimSpace(later[k].first), Port |-> port]]

\* C32: of the records read from the process's output the first is dropped,
\* every later record that parsed and has a non-empty first field gives
\* exactly one result with the trimmed field and the scanned port, every
\* other record gives none, and a record with a parse error does not end the
\* reading: the records after it are still used, up to the end of the output
\* (all of it when the process was not killed).
C32_RowsParsedPastMalformedOnes ==
    znPc \in {"wait", "defers", "returned"} /\ znRet.err \in {"none", "nil", "ctx"}
    => /\ \E n \in 0 .. Len(znProc.rows) :
             znResults = ExpectedResults(SubSeq(znProc.rows, 1, n), znPort)
       /\ ~znCtxDone => znResults = ExpectedResults(znProc.rows, znPort)

\* a header, a record with a parse error, and a well-formed record after it
\* whose address is returned trimmed
C32_Witness ==
    /\ znPc = "returned"
    /\ ~znCtxDone
    /\ Len(znProc.rows) = 3
    /\ znProc.rows[1].first = <<115, 97, 100, 100, 114>>
    /\ znProc.rows[2] = [err |-> TRUE, first |-> <<55>>]
    /\ znProc.rows[3] = [err |-> FALSE, first |-> <<32, 56, 32>>]
    /\ znRet.results = <<[IP |-> <<56>>, Port |-> znPort]>>

(***************************************************************************)
(* Claims about unparsable ranges in ScanPort.                             *)
(***************************************************************************)
\* the configured ranges that parse, by position
ParsableRanges == {k \in 1 .. Len(spNetworks) : ~expandCIDR(spNetworks[k]).err}

\* C17: with several ranges configured, one that does not parse adds no
\* target and does not end the scan: when ScanPort returns without
\* cancellation, every target of every range that parses was dialled, and
\* every target dialled belongs to a range that parses, wherever the bad
\* entry stands in the list.
C17_BadRangeIsSkipped ==
    (/\ spPc = "returned" /\ spRet.err # "ctx" /\ Len(spNetworks) > 1
     /\ \E k \in ParsableRanges : expandCIDR(spNetworks[k]).ips # <<>>) =>
        /\ spRet.err = "nil"
        /\ \A k \in ParsableRanges :
              LET ips == expandCIDR(spNetworks[k]).ips
              IN  \A j \in 1 .. Len(ips) :
                     \E i \in 1 .. Len(spAllIPs) :
                         spAllIPs[i] = ips[j] /\ spOutcome[i] \in {"open", "closed"}
        /\ \A i \in 1 .. Len(spAllIPs) :
              \E k \in ParsableRanges :
                  LET ips == expandCIDR(spNetworks[k]).ips
                  IN  \E j \in 1 .. Len(ips) : ips[j] = spAllIPs[i]

\* the first range does not parse, the second has two targets, both dialled
C17_Witness ==
    /\ spPc = "returned" /\ spRet.err = "nil"
    /\ Len(spNetworks) = 2
    /\ ParsableRanges = {2}
    /\ Len(spAllIPs) = 2
    /\ \A i \in 1 .. Len(spAllIPs) : spOutcome[i] \in {"open", "closed"}

(***************************************************************************)
(* Claims about all-ports scans.                                           *)
(***************************************************************************)
\* the ports handed to the per-port probe in the run r
ProbedPorts(r) == {e[2] : e \in r.probed}

\* an all-ports run that ended without its deadline passing
AllPortsRunOver(i) ==
    /\ i <= Len(runs)
    /\ cfg.ScanAllPorts
    /\ runs[i].pc = "done"
    /\ ~runs[i].ctxDone

\* C18 as stated: an all-ports scan hands every port number from 0 to the
\* last (65535) to the per-port probe, 65536 ports in all.
C18_ProbesPortsFromZero ==
    \A i \in 1 .. MaxRuns : AllPortsRunOver(i) => ProbedPorts(runs[i]) = 0 .. totalPorts

\* C18 amended: an all-ports scan that is not cancelled hands every port
\* number from 1 to the last (65535), and no other, to the per-port probe:
\* the native backend once per port for all ranges, the delegated one once
\* per configured range and port.  Port 0 is not probed.
C18_ProbesPortsFromOne ==
    \A i \in 1 .. MaxRuns :
        AllPortsRunOver(i) =>
            runs[i].probed =
                (IF cfg.useZmap THEN 1 .. Len(Networks) ELSE {0}) \X (1 .. totalPorts)

\* a delegated all-ports run is over: every port of every range was probed
C18_Witness ==
    /\ AllPortsRunOver(1)
    /\ cfg.useZmap
    /\ Cardinality(runs[1].probed) = Len(Networks) * totalPorts
    /\ runs[1].hostPorts # <<>>

\* first ports of the batches: 1, 1 + batchSize, 1 + 2 * batchSize, ...
BatchStarts == {b \in 1 .. totalPorts : (b - 1) % batchSize = 0}

\* the ports from 1 to totalPorts, in ascending order, that satisfy open
AscendingPorts(open(_)) == SelectSeq(PortsFromTo(1, totalPorts), open)

\* what ScanPorts returns for the host ip when handed the ports 1 ..
\* totalPorts one by one, given the zmap runs that failed in this run
OneByOnePortsOf(r, ip) ==
    LET open(p) ==
          /\ <<ip, p>> \in listening
          /\ \A k \in 1 .. Len(Networks) :
                 NetworkHost(Networks[k]) = ip => <<k, p>> \notin r.failed
    IN  AscendingPorts(open)

ExpectedCalls ==
    LET due(k) == cbCallback /\ cbDone[k].ret.err = "nil" /\ cbDone[k].ret.results # <<>>
        all == [k \in 1 .. Len(cbDone) |->
                   [port |-> cbPorts[k], results |-> cbDone[k].ret.results, entry |-> k]]
    IN  SelectSeq(all, LAMBDA c : due(c.entry))

\* the open endpoints the attempts of the ScanPort call at hand found
OpenFound ==
    {[IP |-> spAllIPs[i], Port |-> spPort] :
        i \in {j \in 1 .. Len(spAllIPs) : spOutcome[j] = "open"}}

\* the step invokes the callback
CallbackInvocation == cbCalls' # cbCalls

\* the step dispatches a connection attempt
AttemptDispatch == \E i \in 1 .. Len(spWorker) : spWorker[i] = "none" /\ spWorker'[i] = "dial"

\* C20: in ScanPortsWithCallback the callback for a port is invoked when every
\* connection attempt for that port has finished, with exactly the open
\* endpoints found for the port, all carrying the port; an attempt is
\* dispatched only while no callback runs and after the callback of every
\* earlier entry that was due one has been invoked; and the invocations are,
\* in order, at most one per entry of the port list.
C20_CallbackOrderedPerPort ==
    [][/\ CallbackInvocation =>
            /\ \A i \in 1 .. Len(spAllIPs) : spWorker[i] = "exited"
            /\ cbCalls' = Append(cbCalls, cbCalls'[Len(cbCalls')])
            /\ cbCalls'[Len(cbCalls')].port = spPort
            /\ spPort = cbPorts[cbIdx]
            /\ SeqRange(cbCalls'[Len(cbCalls')].results) = OpenFound
            /\ Len(cbCalls'[Len(cbCalls')].results) = Cardinality(OpenFound)
            /\ \A r \in OpenFound : r.Port = cbPorts[cbIdx]
       /\ AttemptDispatch =>
            /\ cbPc = "scan"
            /\ spPort = cbPorts[cbIdx]
            /\ Len(cbDone) = cbIdx - 1
            /\ cbCalls = ExpectedCalls
       /\ \A k \in 1 .. Len(cbCalls') :
            /\ cbCalls'[k].entry \in 1 .. Len(cbPorts)
            /\ \A j \in 1 .. k - 1 : cbCalls'[j].entry < cbCalls'[k].entry
      ]_vars

\* the callback has run for both entries of a two-port list; the first
\* port's scan found an open target and a closed one
C20_Witness ==
    /\ cbPc = "returned"
    /\ cbRet.err = "nil"
    /\ Len(cbPorts) = 2
    /\ Len(cbCalls) = 2
    /\ cbCalls[1].port = 22 /\ cbCalls[2].port = 80
    /\ Len(cbCalls[1].results) = 1
    /\ Len(cbDone[1].ret.results) < Len(spAllIPs)

(***************************************************************************)
(* Claims about submission and the readiness poll.                         *)
(***************************************************************************)
\* the ports a run with an explicit or default port list scans
ListedPorts == IF Len(cfg.Ports) = 0 THEN CommonPorts ELSE cfg.Ports

\* the endpoints that accept connections on the listed ports
ListedOpen ==
    {e \in listening : e[1] \in SeqRange(AllIPs) /\ e[2] \in SeqRange(ListedPorts)}

\* a streaming run with the callback is over and its deadline never passed
CallbackRunOver(i) ==
    /\ HasCallback
    /\ i <= Len(runs)
    /\ runs[i].pc = "done"
    /\ ~runs[i].ctxDone

\* C21: whether submissions succeed or fail, a run that is not cancelled
\* fingerprints every open endpoint of every listed port and submits it exactly
\* once (a failed submission is not repeated and nothing after it is left
\* out), and ends with the guard idle.
C21_FailedSubmissionDoesNotStopRun ==
    \A i \in 1 .. MaxRuns :
        CallbackRunOver(i) =>
            /\ ~isScanning
            /\ scanMutex = NoProc
            /\ Len(runs[i].submitted) = Cardinality(ListedOpen)
            /\ \A e \in ListedOpen :
                  /\ e \in runs[i].fingerprinted
                  /\ SubmittedCount(runs[i].submitted, e) = 1

\* the first of three submissions failed, and the run went on over the
\* second endpoint of the port and the next port
C21_Witness ==
    /\ CallbackRunOver(1)
    /\ cfg.Ports = <<22, 2>>
    /\ Len(runs[1].submitted) = 3
    /\ ~runs[1].submitted[1].ok
    /\ runs[1].submitted[1].Ports[1].PortNumber = 22
    /\ runs[1].submitted[2].Ports[1].PortNumber = 22
    /\ runs[1].submitted[3].Ports[1].PortNumber = 2

\* C22: the readiness poll calls HealthCheck at most 30 times and not again
\* after a call that succeeded; and whatever the calls return, 30 failures
\* included, the initial scan is started afterwards.
C22_PollIsBoundedAndScanStarts ==
    /\ [](hcAttempts <= MaxHealthChecks)
    /\ [][hcAttempts' # hcAttempts => ~hcReady]_vars
    /\ [](hcPc = "started" => (hcReady \/ hcAttempts = MaxHealthChecks))
    /\ <>(Len(runs) = 1 /\ runs[1].kind = "initial" /\ InScanBody(1))

\* thirty health checks failed and the initial scan has run
C22_Witness ==
    /\ hcAttempts = MaxHealthChecks
    /\ ~hcReady
    /\ Len(runs) = 1
    /\ runs[1].pc = "done"

(***************************************************************************)
(* Claims about the goroutines of ScanPort.                                *)
(***************************************************************************)
\* the goroutines that may still append to results
MayAppend == {i \in 1 .. Len(spWorker) : spWorker[i] \in {"dial", "lock", "append"}}

\* the step writes the shared slice results
ResultsWritten == spResults' # spResults

\* the step is ScanPort's return of the slice results
ResultsReturned == spPc \in {"check", "wait"} /\ spPc' = "returned"

\* C23: every write of the shared result slice is made by a goroutine that
\* holds the mutex, and ScanPort reads the slice to return it only when no
\* goroutine can append to it any more, on the cancellation path as on the
\* normal one.
C23_ResultsGuardedOrQuiescent ==
    [][/\ ResultsWritten =>
            \E i \in 1 .. Len(spWorker) : spWorker[i] = "append" /\ spMu = i
       /\ ResultsReturned => MayAppend = {}
      ]_vars

\* the step starts the goroutine of a target
TargetDispatched == spNext' = spNext + 1 /\ Len(spWorker) = Len(spWorker')

\* C24, as claimed: once the context is done, no target that was not yet
\* dispatched is dispatched, even if the dispatcher was acquiring a slot when
\* the context ended.
C24_NoDispatchAfterCancel ==
    [][TargetDispatched => ~spCtxDone]_vars

\* C24, amended: a target whose check comes after the context ended is never
\* dispatched; the one target whose check had passed before (the dispatcher
\* being at the slot acquisition) is still dispatched, and none after it.
C24_AtMostThePendingTargetAfterCancel ==
    [][spCtxDone =>
          /\ spPc = "check" => spPc' # "acquire"
          /\ spPc \in {"check", "wait", "returned"} => ~TargetDispatched
          /\ TargetDispatched => spPc = "acquire" /\ spPc' = "check"
      ]_vars

\* the context ended while the dispatcher waits for a slot of the full gate
C24_Witness ==
    /\ spCtxDone
    /\ spPc = "acquire"
    /\ ~semCanSend(spSem, spRate)
    /\ spNext = 2

\* C25: ScanPort starts the attempts in the order of allIPs, one per target:
\* the targets before the loop's position have been dispatched and the others
\* not; an attempt is made once and its outcome is final; with the gate full
\* the dispatcher stays at the same target until a slot is free; and a return
\* without cancellation comes after an attempt for every target.
C25_OneAttemptPerTarget ==
    /\ [](spPc \notin {"off", "expand"} =>
            /\ spNext \in 1 .. Len(spAllIPs) + 1
            /\ \A i \in 1 .. Len(spAllIPs) : (spWorker[i] # "none") <=> (i < spNext)
            /\ \A i \in 1 .. Len(spAllIPs) :
                  (spOutcome[i] # "none") <=> (spWorker[i] \notin {"none", "dial"}))
    /\ [][/\ \A i \in 1 .. Len(spOutcome) :
               ((Len(spOutcome') = Len(spOutcome) /\ spOutcome'[i] # spOutcome[i]) =>
                   (spOutcome[i] = "none" /\ spWorker[i] = "dial"))
           /\ ((spPc = "acquire" /\ ~semCanSend(spSem, spRate)) =>
                   (spPc' = "acquire" /\ spNext' = spNext))
          ]_vars
    /\ []((spPc = "returned" /\ spRet.err = "nil") =>
            /\ spNext = Len(spAllIPs) + 1
            /\ \A i \in 1 .. Len(spAllIPs) : spOutcome[i] # "none")

\* with rate 1 the dispatcher waits at the third target for the slot that the
\* second target's attempt holds; the first attempt is over
C25_Witness ==
    /\ ~spCtxDone
    /\ spRate = 1
    /\ Len(spAllIPs) = 3
    /\ spPc = "acquire"
    /\ spNext = 3
    /\ ~semCanSend(spSem, spRate)
    /\ spWorker[1] = "exited"

\* C26: the slots of the gate in use are those of the attempts dispatched and
\* not yet released; a slot is released one at a time, by the goroutine that
\* holds it, when its attempt is over, open or closed; ScanPort returns in
\* the end, whatever the number of targets and the rate; and on a normal
\* return every slot is free.
C26_SlotsReleasedAndScanPortReturns ==
    /\ [](spSem = Cardinality(InFlight))
    /\ [][spSem' < spSem =>
             /\ spSem' = spSem - 1
             /\ \E i \in 1 .. Len(spWorker) :
                   /\ spWorker[i] = "release" /\ spWorker'[i] = "wgdone"
                   /\ spOutcome[i] \in {"open", "closed"}
          ]_vars
    /\ []((spPc = "returned" /\ spRet.err = "nil") => spSem = 0)
    /\ <>(spPc = "returned")

\* a scan at rate 1 of three targets, one of them closed, has returned
C26_Witness ==
    /\ spPc = "returned"
    /\ spRet.err = "nil"
    /\ spRate = 1
    /\ spSem = 0
    /\ Len(spAllIPs) = 3
    /\ Len(spRet.results) = 2

(***************************************************************************)
(* Claims about the streaming callback and the port set.                   *)
(***************************************************************************)
\* the endpoints of the submissions made, in order
SubmittedEndpoints(r) ==
    [k \in 1 .. Len(r.submitted) |->
        <<r.submitted[k].IPAddress, r.submitted[k].Ports[1].PortNumber>>]

\* C27: in the streaming callback every submission holds one host with one
\* port; the submissions made are, in order, the endpoints reported so far
\* up to the one at hand, so an endpoint is taken up only when the submission
\* of the one before it has returned, whether it succeeded or not; no endpoint
\* after the one at hand has been fingerprinted; and what is submitted is the
\* address and port of the endpoint just fingerprinted.
C27_EndpointsStreamedOneAtATime ==
    \A i \in 1 .. MaxRuns :
        (HasCallback /\ i <= Len(runs)) =>
            LET r == runs[i]
            IN  /\ \A k \in 1 .. Len(r.submitted) : Len(r.submitted[k].Ports) = 1
                /\ r.pc \in {"callback", "submit"} =>
                      /\ r.queue # <<>>
                      /\ SubmittedEndpoints(r) \o r.queue = r.results
                /\ r.pc = "callback" => r.pending = NoHost
                /\ r.pc = "submit" =>
                      /\ r.pending.IPAddress = Head(r.queue)[1]
                      /\ Len(r.pending.Ports) = 1
                      /\ r.pending.Ports[1].PortNumber = Head(r.queue)[2]
                      /\ r.pending.Ports[1].info = (Head(r.queue) \in r.fingerprinted)
                /\ r.fingerprinted \subseteq
                      SeqRange(SubmittedEndpoints(r)) \cup
                      (IF r.pc = "submit" THEN {Head(r.queue)} ELSE {})

\* the submission of the port's first endpoint has failed and returned; the
\* second endpoint is about to be fingerprinted
C27_Witness ==
    /\ HasCallback
    /\ runs[1].pc = "callback"
    /\ Len(runs[1].submitted) = 1
    /\ ~runs[1].submitted[1].ok
    /\ Len(runs[1].queue) = 1
    /\ Len(runs[1].results) = 2

\* the run is over and its deadline never passed
RunOver(i) == i <= Len(runs) /\ runs[i].pc = "done" /\ ~runs[i].ctxDone

\* C28: a run that is not cancelled probes exactly one port set: every port
\* (1 to totalPorts) when the all-ports flag is set, whatever the explicit
\* list; else the explicit list when it is not empty; else the built-in
\* common-ports list.
C28_PortSetResolution ==
    \A i \in 1 .. MaxRuns :
        RunOver(i) =>
            ProbedPorts(runs[i]) =
                (IF cfg.ScanAllPorts THEN 1 .. totalPorts
                 ELSE IF Len(cfg.Ports) # 0 THEN SeqRange(cfg.Ports)
                 ELSE SeqRange(CommonPorts))

\* an all-ports run with an explicit list of port 22 is over; 22 lies outside
\* the scaled-down range of all ports and was not probed
C28_Witness ==
    /\ RunOver(1)
    /\ cfg.ScanAllPorts
    /\ cfg.Ports = <<22>>
    /\ ProbedPorts(runs[1]) = 1 .. totalPorts
    /\ 22 \notin ProbedPorts(runs[1])

(***************************************************************************)
(* Claims about the resolution of the service name.                        *)
(***************************************************************************)
\* the names the default-name table holds
TableNames == {defaultServiceTable(p) : p \in DefaultNamePorts}

\* C29: the native prober returns the name its protocol probe set, if any;
\* else the name inferred from the captured banner, if there is a banner and
\* it holds a keyword; else the port's entry of the default-name table; else
\* "unknown".  The returned name is never empty.
C29_NamePrecedence ==
    fpPc = "returned" =>
        LET probed == probeForPort(fpPort, fpPeer)
            guessed == IF probed.Banner # <<>> THEN guessServiceFromBanner(probed.Banner)
                       ELSE ""
        IN  /\ fpInfo.ServiceName # ""
            /\ probed.ServiceName # "" => fpInfo.ServiceName = probed.ServiceName
            /\ (probed.ServiceName = "" /\ guessed # "") => fpInfo.ServiceName = guessed
            /\ (probed.ServiceName = "" /\ guessed = "") =>
                  /\ fpPort \in DefaultNamePorts =>
                        fpInfo.ServiceName = defaultServiceTable(fpPort)
                  /\ fpPort \notin DefaultNamePorts => fpInfo.ServiceName = "unknown"
            /\ fpInfo.Banner = probed.Banner

\* a port of the table without a probe of its own answers with an SSH
\* banner: the name comes from the banner, not from the table
C29_Witness ==
    /\ fpPc = "returned"
    /\ fpPort = 1433
    /\ fpPeer = Peer.SSH
    /\ fpInfo.ServiceName = "ssh"
    /\ defaultServiceTable(fpPort) # "ssh"

\* the grabber ran and its output was parsed: fingerprintPort went on to the
\* module's entry and returned
GrabParsedAndReturned == zgPc = "returned" /\ zgOut.run = "ok" /\ zgOut.json

\* the entry of the default-name table for the port, or "unknown"
TableNameOrUnknown(port) ==
    IF port \in DefaultNamePorts THEN defaultServiceTable(port) ELSE "unknown"

\* C30: when the grabber call succeeds and the parse of the module's entry
\* sets no name (the entry is missing, its status is not success, its result
\* does not decode, or its banner holds no keyword), the returned name is the
\* port's entry of the default-name table, or "unknown"; a name the parse set
\* is kept; the delegated prober never returns an empty name.
C30_ParsedNameElseTableName ==
    GrabParsedAndReturned =>
        LET e == zgOut.entry
            parsed == parseZgrabResult(e, getZgrabModule(zgPort), zgPort)
        IN  /\ zgInfo.ServiceName # ""
            /\ (~e.present \/ e.Status # "success" \/ ~e.decodes) =>
                  /\ parsed.ServiceName = ""
                  /\ zgInfo.ServiceName = TableNameOrUnknown(zgPort)
            /\ parsed.ServiceName = "" => zgInfo.ServiceName = TableNameOrUnknown(zgPort)
            /\ parsed.ServiceName # "" => zgInfo.ServiceName = parsed.ServiceName
            /\ zgInfo = [parsed EXCEPT !.ServiceName = zgInfo.ServiceName]

\* zgrab2's http module timed out on port 8080: the name is the table's
C30_Witness ==
    /\ GrabParsedAndReturned
    /\ zgPort = 8080
    /\ zgOut.entry.present
    /\ zgOut.entry.Status = "connection-timeout"
    /\ zgInfo.ServiceName = "http-proxy"
    /\ zgCalls = <<"runZgrab", "parseZgrabResult">>

(***************************************************************************)
(* Claims about ZgrabFingerprinter.FingerprintHost.                        *)
(***************************************************************************)
\* the call of fingerprintPort numbered k ended in the native prober
FellBack(k) == zhLog[k][Len(zhLog[k])] = "Fallback.fingerprintPort"

\* C31: the fallback to the native prober is per call: a grabber failure
\* changes no field of the fingerprinter, and every call of fingerprintPort,
\* whatever the earlier calls did, runs the external grabber first.
C31_GrabberFirstOnEveryCall ==
    /\ zhSelf = NewZgrabFingerprinter
    /\ \A k \in 1 .. Len(zhLog) : zhLog[k][1] = "runZgrab"
    /\ (zhPc = "call" /\ zgCalls # <<>>) => zgCalls[1] = "runZgrab"

\* a second port is grabbed first although the first port fell back
C31_Witness ==
    /\ Len(zhLog) = 2
    /\ FellBack(1)
    /\ zhLog[2] = <<"runZgrab", "parseZgrabResult">>
    /\ zhPc = "returned"

(***************************************************************************)
(* Claims about the delegated backend's loops.                             *)
(***************************************************************************)
\* cmd.Start succeeds: a zmap process exists from here on
ProcessStarted == znPc = "start" /\ znPc' = "read"

\* the errors scanNetworkPort returns once its process has been started
AfterStartErrs == {"nil", "ctx", "zmap failed"}

\* C33: once the context is cancelled no zmap process is started, for none
\* of the remaining (network, port) pairs of ScanPorts or ScanAllPorts, and a
\* process that the cancellation found running is killed and its
\* scanNetworkPort call returns the context's error.
C33_NoProcessAfterCancelAndKilledReturnsCtx ==
    /\ [][ProcessStarted => ~znCtxDone]_vars
    /\ [](\A k \in 1 .. Len(zpLog) :
             /\ zpLog[k].killed => zpLog[k].err = "ctx"
             /\ \A j \in 1 .. k - 1 :
                    zpLog[j].err = "ctx" => zpLog[k].err \notin AfterStartErrs)
    /\ []((znPc = "returned" /\ znKilled) => znRet.err = "ctx")

\* the process of the first network was killed at the cancellation, and the
\* call for the second network of the same port started none
C33_Witness ==
    /\ zpPc = "returned"
    /\ zpMode = "ports"
    /\ Len(zpLog) = 2
    /\ zpLog[1] = [net |-> 1, port |-> 22, err |-> "ctx", killed |-> TRUE]
    /\ zpLog[2] = [net |-> 2, port |-> 22, err |-> "failed to start zmap", killed |-> FALSE]
    /\ zpErr = "ctx"

(***************************************************************************)
(* Claims about the targets ScanPort returns.                              *)
(***************************************************************************)
\* C35: the list ScanPort returns holds no address more than once, whatever
\* the configured ranges, ranges that overlap or are listed twice included.
C35_ScanPortReturnsEachAddressOnce ==
    spPc = "returned"
    => \A i, j \in 1 .. Len(spRet.results) :
           spRet.results[i].IP = spRet.results[j].IP => i = j

(***************************************************************************)
(* Claims about the guard's flag and timestamp as /status reads them.      *)
(***************************************************************************)
\* the step changes the flag or the timestamp
GuardStateChanges == isScanning' # isScanning \/ lastScanTime' # lastScanTime

\* the step is the deferred function of run i, which holds scanMutex
CompletionStepOf(i) ==
    /\ scanMutex = RunProc(i)
    /\ runs[i].pc = "deferReset"
    /\ runs'[i].pc = "done"

\* C36: the flag and the timestamp change only in steps of a run that holds
\* scanMutex; the timestamp is written only by the deferred function of a
\* run that had taken the guard, in the step that clears the flag, and never
\* to an earlier time; so no /status request reads a completed run without
\* a timestamp, and the timestamps successive requests read never decrease.
C36_FlagAndTimestampChangeUnderTheMutex ==
    /\ [][/\ GuardStateChanges => \E i \in 1 .. Len(runs) : scanMutex = RunProc(i)
          /\ lastScanTime' # lastScanTime =>
                /\ \E i \in 1 .. Len(runs) : CompletionStepOf(i)
                /\ isScanning /\ ~isScanning'
                /\ lastScanTime' >= lastScanTime]_vars
    /\ [](\A k \in 1 .. Len(stObs) :
             /\ stObs[k].completed > 0 => stObs[k].last_scan_time # 0
             /\ \A j \in 1 .. k - 1 :
                    stObs[j].last_scan_time <= stObs[k].last_scan_time)
    /\ []((\E i \in 1 .. Len(runs) : runs[i].pc = "done") => lastScanTime # 0)

\* a request answered while the first run was scanning, without a timestamp,
\* and one answered after two runs had completed, with the second's
C36_Witness ==
    /\ Len(stObs) = 2
    /\ stObs[1] = [is_scanning |-> TRUE, last_scan_time |-> 0, completed |-> 0]
    /\ stObs[2] = [is_scanning |-> FALSE, last_scan_time |-> 2, completed |-> 2]

(***************************************************************************)
(* Claims about what is submitted when the deadline passes.                *)
(***************************************************************************)
\* C37: every port of every submission has a service name (the info of its
\* fingerprint, whose name is never empty), protocol "tcp" and state "open",
\* also when the deadline passes while a port's endpoints are fingerprinted
\* and submitted.
C37_SubmittedPortsAreNamed ==
    \A i \in 1 .. Len(runs) :
        \A k \in 1 .. Len(runs[i].submitted) :
            \A p \in 1 .. Len(runs[i].submitted[k].Ports) :
                LET port == runs[i].submitted[k].Ports[p]
                IN  port.info /\ port.Protocol = "tcp" /\ port.State = "open"

\* the open endpoints the all-ports scan of the run r holds: those merged
\* into its result map and those of the batch or network at hand
EndpointsHeld(r) == SeqRange(r.hostPorts) \cup SeqRange(r.results)

\* every (range, port) pair an all-ports scan goes through
AllPortsPairs == (IF cfg.useZmap THEN 1 .. Len(Networks) ELSE {0}) \X (1 .. totalPorts)

\* C38: when the deadline passes during an all-ports scan, ScanAllPorts of
\* either backend keeps every open endpoint found so far, those of the batch
\* or network at hand included, in the map it returns, and returns a non-nil
\* error.
C38_AllPortsScanKeepsResultsAndReportsCancel ==
    /\ [][\A i \in 1 .. Len(runs) :
            (cfg.ScanAllPorts /\ runs[i].pc \in {"tcpPorts", "zmapAll"})
                => EndpointsHeld(runs[i]) \subseteq EndpointsHeld(runs'[i])]_vars
    /\ [](\A i \in 1 .. Len(runs) :
            (cfg.ScanAllPorts /\ runs[i].pc = "scanned" /\ runs[i].probed # AllPortsPairs)
                => runs[i].err # "nil")

(***************************************************************************)
(* Claims about a configuration without targets.                           *)
(***************************************************************************)
\* no configured range gives a target
NoTargets == collectIPs(spNetworks, 1) = <<>>

\* C39: when no configured range gives a target, ScanPort returns the error
\* "no valid IPs to scan" with no connection attempt dispatched, and
\* ScanPortsWithCallback goes through every port of the list that way, never
\* invoking the callback, and returns an empty map, with a nil error unless
\* the context ended before the last port.
C39_NoTargetsSkipsEveryPort ==
    /\ [][NoTargets => ~AttemptDispatch /\ ~CallbackInvocation]_vars
    /\ [](NoTargets =>
            /\ \A k \in 1 .. Len(cbDone) :
                   /\ cbDone[k].port = cbPorts[k]
                   /\ cbDone[k].ret = [results |-> <<>>, err |-> "no valid IPs to scan"]
            /\ cbCalls = <<>>
            /\ cbPc = "returned" =>
                   /\ cbRet.results = <<>>
                   /\ cbRet.err \in {"nil", "ctx"}
                   /\ ~spCtxDone => cbRet.err = "nil"
                   /\ cbRet.err = "nil" => Len(cbDone) = Len(cbPorts))

\* both ports of a two-port list were skipped, with a callback at hand
C39_Witness ==
    /\ NoTargets
    /\ cbCallback
    /\ cbPc = "returned"
    /\ Len(cbPorts) = 2
    /\ Len(cbDone) = 2
    /\ cbRet = [results |-> <<>>, err |-> "nil"]

====
